---------------------------- MODULE Spec2Model ----------------------------
(***************************************************************************)
(* Label health and cross-label dependency flow analysis of beads_viewer   *)
(* (package analysis, src/pkg/version/version.go lines 50-995).            *)
(*                                                                         *)
(* The package is a library of pure functions over an issue collection.    *)
(* The state is the input of a run (issue collection, configuration,       *)
(* reference instant, centrality snapshot) together with the last call     *)
(* made and the value it returned.  Every exported function is one action. *)
(*                                                                         *)
(* Conventions                                                             *)
(*  - Go slices are sequences (1-based here, 0-based in the source).       *)
(*  - Go maps are functions; a key is present iff it is in the DOMAIN.     *)
(*  - time.Time is a natural number of hours; 0 is the zero time.          *)
(*  - float64 values are exact rationals, kept as integer numerators over  *)
(*    a stated denominator; int(x) truncates toward zero.                  *)
(*  - string comparison is the rank of a label in LabelOrder.              *)
(***************************************************************************)
EXTENDS Integers, Sequences, FiniteSets, TLC

VARIABLES issues, cfg, now, stats, call, ret

vars == <<issues, cfg, now, stats, call, ret>>

(***************************************************************************)
(* model package values used by the analysis code                          *)
(***************************************************************************)
StatusOpen == "open"
StatusInProgress == "in_progress"
StatusBlocked == "blocked"
StatusClosed == "closed"
DepBlocks == "blocks"
DepRelated == "related"

\* A nil *model.Dependency in a Dependencies slice.
NilDep == [Nil |-> TRUE, DependsOnID |-> "", Type |-> ""]

Dep(id, type) == [Nil |-> FALSE, DependsOnID |-> id, Type |-> type]

\* The zero time.Time and its IsZero test.
ZeroTime == 0

IsZero(t) == t = ZeroTime

\* A nil *time.Time (Issue.ClosedAt).
NilTime == -1

(***************************************************************************)
(* Strings: the labels of the model in ascending byte-wise order, which is *)
(* what Go's < on strings and sort.Strings use.                            *)
(***************************************************************************)
LabelOrder == <<"", "api", "core", "ui">>

LabelUniverse == {LabelOrder[i] : i \in DOMAIN LabelOrder}

StringRank(s) == CHOOSE i \in DOMAIN LabelOrder : LabelOrder[i] = s

StringLess(a, b) == StringRank(a) < StringRank(b)

(***************************************************************************)
(* Generic helpers                                                         *)
(***************************************************************************)
SeqToSet(s) == {s[i] : i \in DOMAIN s}

RECURSIVE SumSeq(_)
SumSeq(s) == IF s = <<>> THEN 0 ELSE Head(s) + SumSeq(Tail(s))

\* Go's int(x) for the rational a/b with b > 0: truncation toward zero.
TruncDiv(a, b) == IF a >= 0 THEN a \div b ELSE -((-a) \div b)

\* The keys of a Go map in the order one range loop happens to visit them.
\* Every caller sorts the collected keys by a total order afterwards.
RECURSIVE MapKeys(_)
MapKeys(S) ==
  IF S = {} THEN <<>>
  ELSE LET x == CHOOSE y \in S : TRUE IN <<x>> \o MapKeys(S \ {x})

\* sort.Strings: ascending by string comparison (insertion sort).
RECURSIVE InsertString(_, _)
InsertString(sorted, x) ==
  IF sorted = <<>> THEN <<x>>
  ELSE IF StringLess(x, Head(sorted)) THEN <<x>> \o sorted
  ELSE <<Head(sorted)>> \o InsertString(Tail(sorted), x)

RECURSIVE SortStrings(_)
SortStrings(s) ==
  IF s = <<>> THEN <<>> ELSE InsertString(SortStrings(Tail(s)), Head(s))

(***************************************************************************)
(* Label extraction (bv-101)                                               *)
(***************************************************************************)
NewLabelStats(label) ==
  [Label |-> label, TotalCount |-> 0, OpenCount |-> 0, ClosedCount |-> 0,
   InProgress |-> 0, IssueIDs |-> <<>>]

\* One pass of the inner loop of ExtractLabels for a non-empty label.
UpdateLabelStats(st, issue, label) ==
  LET old == IF label \in DOMAIN st THEN st[label] ELSE NewLabelStats(label)
      new == [old EXCEPT
                !.TotalCount = @ + 1,
                !.IssueIDs = Append(@, issue.ID),
                !.OpenCount = IF issue.Status = StatusOpen THEN @ + 1 ELSE @,
                !.ClosedCount = IF issue.Status = StatusClosed THEN @ + 1 ELSE @,
                !.InProgress = IF issue.Status = StatusInProgress THEN @ + 1 ELSE @]
  IN [l \in DOMAIN st \cup {label} |-> IF l = label THEN new ELSE st[l]]

\* Faulty variant of ExtractIssueLabels: a label repeated on the issue is
\* counted once.
RECURSIVE ExtractIssueLabelsOnce(_, _, _)
ExtractIssueLabelsOnce(st, issue, k) ==
  IF k > Len(issue.Labels) THEN st
  ELSE IF issue.Labels[k] = "" \/ \E j \in 1..(k - 1) : issue.Labels[j] = issue.Labels[k]
       THEN ExtractIssueLabelsOnce(st, issue, k + 1)
  ELSE ExtractIssueLabelsOnce(UpdateLabelStats(st, issue, issue.Labels[k]), issue, k + 1)

\* The inner loop: the labels of one issue from position k on.
RECURSIVE ExtractIssueLabels(_, _, _)
ExtractIssueLabels(st, issue, k) ==
  IF k > Len(issue.Labels) THEN st
  ELSE IF issue.Labels[k] = "" THEN ExtractIssueLabels(st, issue, k + 1)
  ELSE ExtractIssueLabels(UpdateLabelStats(st, issue, issue.Labels[k]), issue, k + 1)

\* The outer loop: Stats after the issues from position i on.
RECURSIVE ExtractStats(_, _, _)
ExtractStats(st, iss, i) ==
  IF i > Len(iss) THEN st
  ELSE ExtractStats(ExtractIssueLabels(st, iss[i], 1), iss, i + 1)

\* labelSet: the keys set to true by the loop.
ExtractLabelSet(iss) ==
  {l \in UNION {SeqToSet(iss[i].Labels) : i \in DOMAIN iss} : l /= ""}

\* Faulty variant of LabelCountLess: the count is compared ascending.
LabelCountLessAscending(a, b) ==
  IF a.count /= b.count THEN a.count < b.count ELSE StringLess(a.label, b.label)

\* The less function of sortLabelsByCount: count descending, label ascending.
LabelCountLess(a, b) ==
  IF a.count /= b.count THEN a.count > b.count ELSE StringLess(a.label, b.label)

RECURSIVE InsertLabelCount(_, _)
InsertLabelCount(sorted, x) ==
  IF sorted = <<>> THEN <<x>>
  ELSE IF LabelCountLess(x, Head(sorted)) THEN <<x>> \o sorted
  ELSE <<Head(sorted)>> \o InsertLabelCount(Tail(sorted), x)

RECURSIVE SortLabelCounts(_)
SortLabelCounts(s) ==
  IF s = <<>> THEN <<>> ELSE InsertLabelCount(SortLabelCounts(Tail(s)), Head(s))

sortLabelsByCount(st) ==
  LET keys == MapKeys(DOMAIN st)
      lc == [i \in DOMAIN keys |-> [label |-> keys[i], count |-> st[keys[i]].TotalCount]]
      sorted == SortLabelCounts(lc)
  IN [i \in DOMAIN sorted |-> sorted[i].label]

EmptyMap == [l \in {} |-> 0]

\* Faulty variant of ExtractLabels: UnlabeledCount is incremented where an
\* empty label is skipped instead of where the label list is empty.
ExtractLabelsUnlabeledAtSkip(iss) ==
  IF Len(iss) = 0
  THEN [Labels |-> <<>>, LabelCount |-> 0, Stats |-> EmptyMap,
        IssueCount |-> 0, UnlabeledCount |-> 0, TopLabels |-> <<>>]
  ELSE LET st == ExtractStats(EmptyMap, iss, 1)
           labels == SortStrings(MapKeys(ExtractLabelSet(iss)))
       IN [Labels |-> labels,
           LabelCount |-> Len(labels),
           Stats |-> st,
           IssueCount |-> Len(iss),
           UnlabeledCount |-> Cardinality({i \in DOMAIN iss :
                                \E k \in DOMAIN iss[i].Labels : iss[i].Labels[k] = ""}),
           TopLabels |-> sortLabelsByCount(st)]

ExtractLabels(iss) ==
  IF Len(iss) = 0
  THEN [Labels |-> <<>>, LabelCount |-> 0, Stats |-> EmptyMap,
        IssueCount |-> 0, UnlabeledCount |-> 0, TopLabels |-> <<>>]
  ELSE LET st == ExtractStats(EmptyMap, iss, 1)
           labels == SortStrings(MapKeys(ExtractLabelSet(iss)))
       IN [Labels |-> labels,
           LabelCount |-> Len(labels),
           Stats |-> st,
           IssueCount |-> Len(iss),
           UnlabeledCount |-> Cardinality({i \in DOMAIN iss : Len(iss[i].Labels) = 0}),
           TopLabels |-> sortLabelsByCount(st)]

\* GetLabelsForIssue: the labels of the first issue with the ID, else nil.
GetLabelsForIssue(iss, issueID) ==
  IF \E i \in DOMAIN iss : iss[i].ID = issueID
  THEN LET first == CHOOSE i \in DOMAIN iss :
                      /\ iss[i].ID = issueID
                      /\ \A j \in DOMAIN iss : iss[j].ID = issueID => i <= j
       IN iss[first].Labels
  ELSE <<>>

\* m[k]++ on a Go map of ints: a missing key reads as 0.
MapInc(m, k) ==
  [x \in DOMAIN m \cup {k} |->
     IF x = k THEN (IF k \in DOMAIN m THEN m[k] ELSE 0) + 1 ELSE m[x]]

\* The body of the pair loop of GetLabelCooccurrence for labels[i], labels[j].
CooccurrencePair(cooc, a, b) ==
  LET l1 == IF StringLess(b, a) THEN b ELSE a
      l2 == IF StringLess(b, a) THEN a ELSE b
      c1 == [x \in DOMAIN cooc \cup {l1} |->
               IF x \in DOMAIN cooc THEN cooc[x] ELSE EmptyMap]
      c2 == [x \in DOMAIN c1 \cup {l2} |->
               IF x \in DOMAIN c1 THEN c1[x] ELSE EmptyMap]
      c3 == [c2 EXCEPT ![l1] = MapInc(@, l2)]
  IN [c3 EXCEPT ![l2] = MapInc(@, l1)]

\* for j := i + 1; j < len(labels); j++
RECURSIVE CooccurrenceInner(_, _, _, _)
CooccurrenceInner(cooc, labels, i, j) ==
  IF j > Len(labels) THEN cooc
  ELSE CooccurrenceInner(CooccurrencePair(cooc, labels[i], labels[j]), labels, i, j + 1)

\* for i := 0; i < len(labels); i++
RECURSIVE CooccurrenceIssue(_, _, _)
CooccurrenceIssue(cooc, labels, i) ==
  IF i > Len(labels) THEN cooc
  ELSE CooccurrenceIssue(CooccurrenceInner(cooc, labels, i, i + 1), labels, i + 1)

RECURSIVE CooccurrenceLoop(_, _, _)
CooccurrenceLoop(cooc, iss, n) ==
  IF n > Len(iss) THEN cooc
  ELSE CooccurrenceLoop(CooccurrenceIssue(cooc, iss[n].Labels, 1), iss, n + 1)

GetLabelCooccurrence(iss) == CooccurrenceLoop(EmptyMap, iss, 1)

(***************************************************************************)
(* Cross-label flow                                                        *)
(***************************************************************************)
\* index: the position of each label in the sorted label list.
LabelIndex(labelList) ==
  [l \in SeqToSet(labelList) |-> CHOOSE i \in DOMAIN labelList : labelList[i] = l]

\* issueMap: a later issue with the same ID overwrites an earlier one.
IssueMap(iss) ==
  [id \in {iss[i].ID : i \in DOMAIN iss} |->
     iss[CHOOSE i \in DOMAIN iss :
           /\ iss[i].ID = id
           /\ \A j \in DOMAIN iss : iss[j].ID = id => j <= i]]

ZeroMatrix(n) == [i \in 1..n |-> [j \in 1..n |-> 0]]

\* Faulty variant of FlowPair: a pair of equal labels is not skipped.
FlowPairSelf(acc, index, blocker, blocked, from, to) ==
  IF from = "" \/ to = "" THEN acc
  ELSE IF from \notin DOMAIN index \/ to \notin DOMAIN index THEN acc
  ELSE LET key == <<from, to>>
           old == IF key \in DOMAIN acc.depMap THEN acc.depMap[key]
                  ELSE [FromLabel |-> from, ToLabel |-> to, IssueCount |-> 0,
                        IssueIDs |-> <<>>, BlockingPairs |-> <<>>]
           new == [old EXCEPT
                     !.IssueCount = @ + 1,
                     !.IssueIDs = Append(@, blocked.ID),
                     !.BlockingPairs = Append(@,
                        [BlockerID |-> blocker.ID, BlockedID |-> blocked.ID,
                         BlockerLabel |-> from, BlockedLabel |-> to])]
       IN [matrix |-> [acc.matrix EXCEPT ![index[from]][index[to]] = @ + 1],
           totalDeps |-> acc.totalDeps + 1,
           depMap |-> [k \in DOMAIN acc.depMap \cup {key} |->
                         IF k = key THEN new ELSE acc.depMap[k]]]

\* The body of the label cross-product loop for one (from, to) pair.
FlowPair(acc, index, blocker, blocked, from, to) ==
  IF from = "" \/ to = "" \/ from = to THEN acc
  ELSE IF from \notin DOMAIN index \/ to \notin DOMAIN index THEN acc
  ELSE LET key == <<from, to>>
           old == IF key \in DOMAIN acc.depMap THEN acc.depMap[key]
                  ELSE [FromLabel |-> from, ToLabel |-> to, IssueCount |-> 0,
                        IssueIDs |-> <<>>, BlockingPairs |-> <<>>]
           new == [old EXCEPT
                     !.IssueCount = @ + 1,
                     !.IssueIDs = Append(@, blocked.ID),
                     !.BlockingPairs = Append(@,
                        [BlockerID |-> blocker.ID, BlockedID |-> blocked.ID,
                         BlockerLabel |-> from, BlockedLabel |-> to])]
       IN [matrix |-> [acc.matrix EXCEPT ![index[from]][index[to]] = @ + 1],
           totalDeps |-> acc.totalDeps + 1,
           depMap |-> [k \in DOMAIN acc.depMap \cup {key} |->
                         IF k = key THEN new ELSE acc.depMap[k]]]

\* for _, to := range blocked.Labels
RECURSIVE FlowToLoop(_, _, _, _, _, _)
FlowToLoop(acc, index, blocker, blocked, from, q) ==
  IF q > Len(blocked.Labels) THEN acc
  ELSE FlowToLoop(FlowPair(acc, index, blocker, blocked, from, blocked.Labels[q]),
                  index, blocker, blocked, from, q + 1)

\* Faulty variant of FlowFromLoop: only the first label of the blocker is
\* paired with the labels of the blocked issue.
FlowFromLoopFirstLabel(acc, index, blocker, blocked, p) ==
  IF Len(blocker.Labels) = 0 THEN acc
  ELSE FlowToLoop(acc, index, blocker, blocked, blocker.Labels[1], 1)

\* for _, from := range blocker.Labels
RECURSIVE FlowFromLoop(_, _, _, _, _)
FlowFromLoop(acc, index, blocker, blocked, p) ==
  IF p > Len(blocker.Labels) THEN acc
  ELSE FlowFromLoop(FlowToLoop(acc, index, blocker, blocked, blocker.Labels[p], 1),
                    index, blocker, blocked, p + 1)

\* Faulty variant of FlowDep: a closed blocker is not filtered.
FlowDepClosedBlocker(acc, index, issueMap, c, blocked, dep) ==
  IF dep.Nil \/ dep.Type /= DepBlocks THEN acc
  ELSE IF dep.DependsOnID \notin DOMAIN issueMap THEN acc
  ELSE FlowFromLoop(acc, index, issueMap[dep.DependsOnID], blocked, 1)

\* The body of the dependency loop: the guards before the cross product.
FlowDep(acc, index, issueMap, c, blocked, dep) ==
  IF dep.Nil \/ dep.Type /= DepBlocks THEN acc
  ELSE IF dep.DependsOnID \notin DOMAIN issueMap THEN acc
  ELSE IF ~c.IncludeClosedInFlow /\ issueMap[dep.DependsOnID].Status = StatusClosed
       THEN acc
  ELSE FlowFromLoop(acc, index, issueMap[dep.DependsOnID], blocked, 1)

\* for _, dep := range blocked.Dependencies
RECURSIVE FlowDepLoop(_, _, _, _, _, _)
FlowDepLoop(acc, index, issueMap, c, blocked, d) ==
  IF d > Len(blocked.Dependencies) THEN acc
  ELSE FlowDepLoop(FlowDep(acc, index, issueMap, c, blocked, blocked.Dependencies[d]),
                   index, issueMap, c, blocked, d + 1)

\* Faulty variant of FlowIssue: a closed blocked issue is skipped whatever
\* the configuration says.
FlowIssueClosedSkipped(acc, index, issueMap, c, blocked) ==
  IF blocked.Status = StatusClosed THEN acc
  ELSE FlowDepLoop(acc, index, issueMap, c, blocked, 1)

\* The body of the issue loop: a closed blocked issue is skipped.
FlowIssue(acc, index, issueMap, c, blocked) ==
  IF ~c.IncludeClosedInFlow /\ blocked.Status = StatusClosed THEN acc
  ELSE FlowDepLoop(acc, index, issueMap, c, blocked, 1)

\* for _, blocked := range issues
RECURSIVE FlowIssueLoop(_, _, _, _, _, _)
FlowIssueLoop(acc, index, issueMap, c, iss, i) ==
  IF i > Len(iss) THEN acc
  ELSE FlowIssueLoop(FlowIssue(acc, index, issueMap, c, iss[i]),
                     index, issueMap, c, iss, i + 1)

\* Faulty variant of DependencyLess: ToLabel is not compared.
DependencyLessFromOnly(a, b) ==
  IF a.FromLabel /= b.FromLabel THEN StringLess(a.FromLabel, b.FromLabel)
  ELSE a.IssueCount > b.IssueCount

\* The less function of the dependency sort.
DependencyLess(a, b) ==
  IF a.FromLabel /= b.FromLabel THEN StringLess(a.FromLabel, b.FromLabel)
  ELSE IF a.ToLabel /= b.ToLabel THEN StringLess(a.ToLabel, b.ToLabel)
  ELSE a.IssueCount > b.IssueCount

RECURSIVE InsertDependency(_, _)
InsertDependency(sorted, x) ==
  IF sorted = <<>> THEN <<x>>
  ELSE IF DependencyLess(x, Head(sorted)) THEN <<x>> \o sorted
  ELSE <<Head(sorted)>> \o InsertDependency(Tail(sorted), x)

RECURSIVE SortDependencies(_)
SortDependencies(s) ==
  IF s = <<>> THEN <<>> ELSE InsertDependency(SortDependencies(Tail(s)), Head(s))

\* Build dependency list deterministically.
DependencyList(depMap) ==
  LET keys == MapKeys(DOMAIN depMap)
  IN SortDependencies([i \in DOMAIN keys |-> depMap[keys[i]]])

\* outCounts: the row sums of the matrix, by label.
OutCounts(labelList, matrix) ==
  [l \in SeqToSet(labelList) |->
     SumSeq(matrix[CHOOSE i \in DOMAIN labelList : labelList[i] = l])]

\* maxOut: the running maximum of the row sums, starting at 0.
RECURSIVE MaxOut(_, _, _)
MaxOut(matrix, i, m) ==
  IF i > Len(matrix) THEN m
  ELSE MaxOut(matrix, i + 1, IF SumSeq(matrix[i]) > m THEN SumSeq(matrix[i]) ELSE m)

\* Faulty variant of BottleneckLabels: every label with an outgoing
\* dependency is listed, not only those at the maximum.
BottleneckLabelsAnyOutgoing(labelList, matrix) ==
  LET outCounts == OutCounts(labelList, matrix)
  IN SortStrings(MapKeys({l \in DOMAIN outCounts : outCounts[l] > 0}))

\* Bottleneck labels: highest outgoing deps.
BottleneckLabels(labelList, matrix) ==
  LET outCounts == OutCounts(labelList, matrix)
      maxOut == MaxOut(matrix, 1, 0)
  IN SortStrings(MapKeys({l \in DOMAIN outCounts :
                            outCounts[l] = maxOut /\ outCounts[l] > 0}))

ComputeCrossLabelFlow(iss, c) ==
  LET labelList == SortStrings(ExtractLabels(iss).Labels)
      n == Len(labelList)
      index == LabelIndex(labelList)
      acc == FlowIssueLoop([matrix |-> ZeroMatrix(n), totalDeps |-> 0,
                            depMap |-> EmptyMap],
                           index, IssueMap(iss), c, iss, 1)
  IN [Labels |-> labelList,
      FlowMatrix |-> acc.matrix,
      Dependencies |-> DependencyList(acc.depMap),
      BottleneckLabels |-> BottleneckLabels(labelList, acc.matrix),
      TotalCrossLabelDeps |-> acc.totalDeps]

(***************************************************************************)
(* Health score constants, thresholds and configuration                    *)
(***************************************************************************)
HealthLevelHealthy == "healthy"
HealthLevelWarning == "warning"
HealthLevelCritical == "critical"

DefaultStaleThresholdDays == 14
HealthyThreshold == 70
WarningThreshold == 40

\* Weights are float64 in the source; here they are hundredths (25 is 0.25).
WeightScale == 100
VelocityWeight == 25
FreshnessWeight == 25
FlowWeight == 25
CriticalityWeight == 25

DefaultLabelHealthConfig ==
  [StaleThresholdDays |-> DefaultStaleThresholdDays,
   VelocityWeight |-> VelocityWeight,
   FreshnessWeight |-> FreshnessWeight,
   FlowWeight |-> FlowWeight,
   CriticalityWeight |-> CriticalityWeight,
   MinIssuesForHealth |-> 1,
   IncludeClosedInFlow |-> FALSE]

\* Faulty variant of clampScore: the upper limit is forgotten.
clampScoreNoUpper(v) == IF v < 0 THEN 0 ELSE v

clampScore(v) == IF v < 0 THEN 0 ELSE IF v > 100 THEN 100 ELSE v

minFloat(a, b) == IF a < b THEN a ELSE b

maxFloat(a, b) == IF a > b THEN a ELSE b

\* Faulty variant of HealthLevelFromScore: the thresholds are exclusive.
HealthLevelFromScoreExclusive(score) ==
  IF score > HealthyThreshold THEN HealthLevelHealthy
  ELSE IF score > WarningThreshold THEN HealthLevelWarning
  ELSE HealthLevelCritical

HealthLevelFromScore(score) ==
  IF score >= HealthyThreshold THEN HealthLevelHealthy
  ELSE IF score >= WarningThreshold THEN HealthLevelWarning
  ELSE HealthLevelCritical

NeedsAttention(health) == health.Health < HealthyThreshold

\* weighted, in hundredths: the sum of the components times their weights.
WeightedSum(velocity, freshness, flow, criticality, c) ==
  velocity * c.VelocityWeight + freshness * c.FreshnessWeight
    + flow * c.FlowWeight + criticality * c.CriticalityWeight

\* Faulty variant of ComputeCompositeHealth: int(weighted), no rounding.
ComputeCompositeHealthTruncated(velocity, freshness, flow, criticality, c) ==
  clampScore(TruncDiv(WeightedSum(velocity, freshness, flow, criticality, c),
                      WeightScale))

\* clampScore(int(weighted + 0.5))
ComputeCompositeHealth(velocity, freshness, flow, criticality, c) ==
  clampScore(TruncDiv(WeightedSum(velocity, freshness, flow, criticality, c)
                        + WeightScale \div 2, WeightScale))

NewLabelHealth(label) ==
  [Label |-> label, IssueCount |-> 0, OpenCount |-> 0, ClosedCount |-> 0,
   Blocked |-> 0, Health |-> 100, HealthLevel |-> HealthLevelHealthy,
   Velocity |-> [ClosedLast7Days |-> 0, ClosedLast30Days |-> 0,
                 AvgDaysToClose |-> [num |-> 0, den |-> 1],
                 TrendDirection |-> "stable",
                 TrendPercent |-> [num |-> 0, den |-> 1],
                 VelocityScore |-> 100],
   Freshness |-> [MostRecentUpdate |-> ZeroTime, OldestOpenIssue |-> ZeroTime,
                  AvgDaysSinceUpdate |-> [num |-> 0, den |-> 1],
                  StaleCount |-> 0,
                  StaleThresholdDays |-> DefaultStaleThresholdDays,
                  FreshnessScore |-> 100],
   Flow |-> [IncomingDeps |-> 0, OutgoingDeps |-> 0, IncomingLabels |-> <<>>,
             OutgoingLabels |-> <<>>, BlockedByExternal |-> 0,
             BlockingExternal |-> 0, FlowScore |-> 100],
   Criticality |-> [AvgPageRank |-> [num |-> 0, den |-> 1],
                    AvgBetweenness |-> [num |-> 0, den |-> 1],
                    MaxBetweenness |-> 0, CriticalPathCount |-> 0,
                    BottleneckCount |-> 0, CriticalityScore |-> 50],
   Issues |-> <<>>]

(***************************************************************************)
(* Velocity: times are hours, so a day is 24.                              *)
(***************************************************************************)
HoursPerDay == 24

\* The closure-window counters after the loop over the issues.
VelocityCounts(iss, t) ==
  LET weekAgo == t - 7 * HoursPerDay
      monthAgo == t - 30 * HoursPerDay
      prevWeekStart == t - 14 * HoursPerDay
      closed == {i \in DOMAIN iss : iss[i].ClosedAt /= NilTime}
      inPrev(i) == iss[i].ClosedAt > prevWeekStart /\ iss[i].ClosedAt < weekAgo
  IN [closed7 |-> Cardinality({i \in closed : iss[i].ClosedAt > weekAgo}),
      closed30 |-> Cardinality({i \in closed : iss[i].ClosedAt > monthAgo}),
      prevWeek |-> Cardinality({i \in closed : inPrev(i)}),
      currentWeek |-> Cardinality({i \in closed :
                                     ~inPrev(i) /\ iss[i].ClosedAt > weekAgo}),
      closeSamples |-> Cardinality({i \in closed : ~IsZero(iss[i].CreatedAt)}),
      totalCloseDur |-> SumSeq([i \in DOMAIN iss |->
                                  IF i \in closed /\ ~IsZero(iss[i].CreatedAt)
                                  THEN iss[i].ClosedAt - iss[i].CreatedAt ELSE 0])]

\* Faulty variant of VelocityTrend: the 10 percent limits are inclusive.
VelocityTrendInclusive(prevWeek, currentWeek) ==
  IF prevWeek > 0
  THEN LET pct == [num |-> (currentWeek - prevWeek) * 100, den |-> prevWeek]
       IN [percent |-> pct,
           dir |-> IF pct.num >= 10 * pct.den THEN "improving"
                   ELSE IF pct.num <= (-10) * pct.den THEN "declining"
                   ELSE "stable"]
  ELSE IF currentWeek > 0
  THEN [percent |-> [num |-> 100, den |-> 1], dir |-> "improving"]
  ELSE [percent |-> [num |-> 0, den |-> 1], dir |-> "stable"]

\* trendPercent (a rational) and trendDir from the two week counters.
VelocityTrend(prevWeek, currentWeek) ==
  IF prevWeek > 0
  THEN LET pct == [num |-> (currentWeek - prevWeek) * 100, den |-> prevWeek]
       IN [percent |-> pct,
           dir |-> IF pct.num > 10 * pct.den THEN "improving"
                   ELSE IF pct.num < (-10) * pct.den THEN "declining"
                   ELSE "stable"]
  ELSE IF currentWeek > 0
  THEN [percent |-> [num |-> 100, den |-> 1], dir |-> "improving"]
  ELSE [percent |-> [num |-> 0, den |-> 1], dir |-> "stable"]

\* Faulty variant of VelocityScoreOf: the bonus is added to a full score too
\* and the sum is not clamped.
VelocityScoreOfUnclampedBonus(closed30, trendDir) ==
  LET base == IF closed30 > 0 THEN minFloat(100, closed30 * 10) ELSE 0
  IN IF trendDir = "improving" THEN base + 10 ELSE base

\* velocityScore from closed30 and the trend bonus.
VelocityScoreOf(closed30, trendDir) ==
  LET base == IF closed30 > 0 THEN minFloat(100, closed30 * 10) ELSE 0
  IN IF trendDir = "improving" /\ base < 100 THEN clampScore(base + 10) ELSE base

ComputeVelocityMetrics(iss, t) ==
  LET c == VelocityCounts(iss, t)
      trend == VelocityTrend(c.prevWeek, c.currentWeek)
  IN [ClosedLast7Days |-> c.closed7,
      ClosedLast30Days |-> c.closed30,
      AvgDaysToClose |-> IF c.closeSamples > 0
                         THEN [num |-> c.totalCloseDur,
                               den |-> HoursPerDay * c.closeSamples]
                         ELSE [num |-> 0, den |-> 1],
      TrendDirection |-> trend.dir,
      TrendPercent |-> trend.percent,
      VelocityScore |-> VelocityScoreOf(c.closed30, trend.dir)]

(***************************************************************************)
(* Freshness                                                               *)
(***************************************************************************)
\* mostRecent after the issues from position i on.
RECURSIVE MostRecentLoop(_, _, _)
MostRecentLoop(iss, i, mostRecent) ==
  IF i > Len(iss) THEN mostRecent
  ELSE MostRecentLoop(iss, i + 1,
         IF iss[i].UpdatedAt > mostRecent THEN iss[i].UpdatedAt ELSE mostRecent)

\* oldestOpen after the issues from position i on.
RECURSIVE OldestOpenLoop(_, _, _)
OldestOpenLoop(iss, i, oldestOpen) ==
  IF i > Len(iss) THEN oldestOpen
  ELSE OldestOpenLoop(iss, i + 1,
         IF iss[i].Status /= StatusClosed
            /\ (IsZero(oldestOpen) \/ iss[i].CreatedAt < oldestOpen)
         THEN iss[i].CreatedAt ELSE oldestOpen)

\* The largest j with 2^j <= n, for n in 1..127.
Log2Floor(n) == CHOOSE j \in 0..6 : 2^j <= n /\ n < 2^(j + 1)

\* (r * 2^n) mod 100.
RECURSIVE DoubleMod100(_, _)
DoubleMod100(r, n) == IF n = 0 THEN r ELSE DoubleMod100((2 * r) % 100, n - 1)

\* float64 arithmetic of (avgStaleness / (threshold * 2)) * 100 when both
\* operands of the division are exact float64 values and the exact result is
\* an integer p in 1..99. The quotient is float64(p / 100), whose 53-bit
\* significand is M = round(p * 2^k / 100) with k = 52 + s and
\* 100 <= p * 2^s < 200 (round to nearest, ties to even).
Float64Shift(p) == CHOOSE s \in 1..7 : 100 <= p * 2^s /\ p * 2^s < 200

\* 100 * M - p * 2^k: the error of the quotient in units of 2^(-k) / 100.
Float64QuotientExcess(p) ==
  LET k == 52 + Float64Shift(p)
      rem == DoubleMod100(p, k)
      odd == 2 * DoubleMod100(p, k - 1) >= 100
  IN IF rem < 50 THEN 0 - rem
     ELSE IF rem > 50 THEN 100 - rem
     ELSE IF odd THEN 50 ELSE -50

\* The float64 product quotient * 100 is the float64 next above p: the exact
\* product p + excess * 2^(-k) is more than half a unit in the last place of
\* p (2^(Log2Floor(p) - 53)) above p.
Float64ProductAbove(p) ==
  Float64QuotientExcess(p) > 2^(Log2Floor(p) + Float64Shift(p) - 1)

\* The float64 difference 100 - x, for x the float64 next above p, is below
\* 100 - p: the spacing of the float64 values below 100 - p is not coarser
\* than that above p (otherwise the difference rounds to 100 - p).
Float64DifferenceBelow(p) ==
  LET n == 100 - p
      below == IF n = 2^Log2Floor(n) THEN Log2Floor(n) - 1 ELSE Log2Floor(n)
  IN Log2Floor(p) >= below

\* int(maxFloat(0, 100 - (avgStaleness / (threshold * 2)) * 100)), with
\* avgStaleness = totalHours / (24 * count) days. The exact value is
\* num / den; float64 rounding cannot move a value that is not an integer
\* across an integer (the denominators are small), so the result is the
\* integer part, except where the exact value is an integer n in 1..99: then
\* the float64 value may lie just below n and int() gives n - 1. exactDays
\* says that the days of every issue and their average are exact float64
\* values; where they are not and the exact value is an integer, the
\* float64 sum is not modelled and the integer part is taken.
FreshnessRaw(totalHours, count, threshold, exactDays) ==
  IF count = 0 THEN 100
  ELSE LET den == HoursPerDay * count * threshold * 2
           num == 100 * den - 100 * totalHours
           n == TruncDiv(num, den)
       IN IF num <= 0 THEN 0
          ELSE IF /\ exactDays
                  /\ n * den = num
                  /\ n \in 1..99
                  /\ Float64ProductAbove(100 - n)
                  /\ Float64DifferenceBelow(100 - n)
          THEN n - 1
          ELSE n

\* The hours since the update of every updated issue are a multiple of 3
\* (so the days are a multiple of 1/8) and there are at most 4 of them: the
\* days, their sum and, where the score is an integer, their average are
\* exact float64 values.
ExactDays(iss, t) ==
  LET updated == {i \in DOMAIN iss : ~IsZero(iss[i].UpdatedAt)}
  IN /\ Cardinality(updated) <= 4
     /\ \A i \in updated : (t - iss[i].UpdatedAt) % 3 = 0

ComputeFreshnessMetrics(iss, t, staleDaysArg) ==
  LET staleDays == IF staleDaysArg <= 0 THEN DefaultStaleThresholdDays
                   ELSE staleDaysArg
      updated == {i \in DOMAIN iss : ~IsZero(iss[i].UpdatedAt)}
      count == Cardinality(updated)
      totalHours == SumSeq([i \in DOMAIN iss |->
                              IF i \in updated THEN t - iss[i].UpdatedAt ELSE 0])
  IN [MostRecentUpdate |-> MostRecentLoop(iss, 1, ZeroTime),
      OldestOpenIssue |-> OldestOpenLoop(iss, 1, ZeroTime),
      AvgDaysSinceUpdate |-> IF count > 0
                             THEN [num |-> totalHours, den |-> HoursPerDay * count]
                             ELSE [num |-> 0, den |-> 1],
      StaleCount |-> Cardinality({i \in updated :
                        t - iss[i].UpdatedAt >= HoursPerDay * staleDays}),
      StaleThresholdDays |-> staleDays,
      FreshnessScore |-> clampScore(FreshnessRaw(totalHours, count, staleDays,
                                                 ExactDays(iss, t)))]

(***************************************************************************)
(* Per-label health                                                        *)
(***************************************************************************)
HasLabel(issue, label) == \E k \in DOMAIN issue.Labels : issue.Labels[k] = label

\* Faulty variant of LabeledIssues: without the break, an issue is collected
\* once for every occurrence of the label in its label list.
LabeledIssuesEveryOccurrence(iss, label) ==
  LET Collected[i \in 0..Len(iss)] ==
        IF i = 0 THEN <<>>
        ELSE Collected[i - 1]
               \o [k \in 1..Cardinality({j \in DOMAIN iss[i].Labels :
                                            iss[i].Labels[j] = label}) |-> iss[i]]
  IN Collected[Len(iss)]

\* labeled: the issues that carry the label, each once, in input order.
LabeledIssues(iss, label) == SelectSeq(iss, LAMBDA x : HasLabel(x, label))

\* Faulty variant of StatusCounts: only open and in_progress issues count as
\* open, an issue with another status value is in no bucket.
StatusCountsKnownOnly(labeled) ==
  [ClosedCount |-> Cardinality({i \in DOMAIN labeled :
                                  labeled[i].Status = StatusClosed}),
   Blocked |-> Cardinality({i \in DOMAIN labeled :
                              labeled[i].Status = StatusBlocked}),
   OpenCount |-> Cardinality({i \in DOMAIN labeled :
                                labeled[i].Status \in {StatusOpen, StatusInProgress}})]

\* The status switch over the labeled issues.
StatusCounts(labeled) ==
  [ClosedCount |-> Cardinality({i \in DOMAIN labeled :
                                  labeled[i].Status = StatusClosed}),
   Blocked |-> Cardinality({i \in DOMAIN labeled :
                              labeled[i].Status = StatusBlocked}),
   OpenCount |-> Cardinality({i \in DOMAIN labeled :
                                labeled[i].Status \notin {StatusClosed, StatusBlocked}})]

\* The number of entries of a label list that differ from the label.
OtherCount(labels, label) == Cardinality({k \in DOMAIN labels : labels[k] /= label})

OtherLabels(labels, label) == {labels[k] : k \in {j \in DOMAIN labels : labels[j] /= label}}

\* Faulty variant of LabelFlowDep: IncomingDeps counts the distinct other
\* labels of the blocker instead of their occurrences.
LabelFlowDepDistinct(acc, iss, label, issue, dep) ==
  IF dep.Nil \/ dep.Type /= DepBlocks THEN acc
  ELSE LET blockerLabels == GetLabelsForIssue(iss, dep.DependsOnID)
           targetLabels == issue.Labels
       IN [IncomingDeps |-> acc.IncomingDeps
                              + Cardinality(OtherLabels(blockerLabels, label)),
           seenIn |-> acc.seenIn \cup OtherLabels(blockerLabels, label),
           OutgoingDeps |-> acc.OutgoingDeps + OtherCount(targetLabels, label),
           seenOut |-> acc.seenOut \cup OtherLabels(targetLabels, label)]

\* The body of the dependency loop of the flow section for one dependency.
LabelFlowDep(acc, iss, label, issue, dep) ==
  IF dep.Nil \/ dep.Type /= DepBlocks THEN acc
  ELSE LET blockerLabels == GetLabelsForIssue(iss, dep.DependsOnID)
           targetLabels == issue.Labels
       IN [IncomingDeps |-> acc.IncomingDeps + OtherCount(blockerLabels, label),
           seenIn |-> acc.seenIn \cup OtherLabels(blockerLabels, label),
           OutgoingDeps |-> acc.OutgoingDeps + OtherCount(targetLabels, label),
           seenOut |-> acc.seenOut \cup OtherLabels(targetLabels, label)]

RECURSIVE LabelFlowDepLoop(_, _, _, _, _)
LabelFlowDepLoop(acc, iss, label, issue, d) ==
  IF d > Len(issue.Dependencies) THEN acc
  ELSE LabelFlowDepLoop(LabelFlowDep(acc, iss, label, issue, issue.Dependencies[d]),
                        iss, label, issue, d + 1)

RECURSIVE LabelFlowLoop(_, _, _, _, _)
LabelFlowLoop(acc, iss, label, labeled, i) ==
  IF i > Len(labeled) THEN acc
  ELSE LabelFlowLoop(LabelFlowDepLoop(acc, iss, label, labeled[i], 1),
                     iss, label, labeled, i + 1)

\* Flow: count cross-label deps.
LabelFlowMetrics(iss, label, labeled) ==
  LET acc == LabelFlowLoop([IncomingDeps |-> 0, seenIn |-> {},
                            OutgoingDeps |-> 0, seenOut |-> {}],
                           iss, label, labeled, 1)
  IN [IncomingDeps |-> acc.IncomingDeps,
      OutgoingDeps |-> acc.OutgoingDeps,
      IncomingLabels |-> SortStrings(MapKeys(acc.seenIn)),
      OutgoingLabels |-> SortStrings(MapKeys(acc.seenOut)),
      BlockedByExternal |-> 0,
      BlockingExternal |-> 0,
      FlowScore |-> clampScore(100 - (acc.IncomingDeps * 5))]

\* A read of a Go map of numbers: a missing key reads as 0.
MapGet(m, k) == IF k \in DOMAIN m THEN m[k] ELSE 0

\* findMax: the largest value of a centrality map, 0 for an empty map.
findMax(m) ==
  IF DOMAIN m = {} THEN 0
  ELSE LET top == CHOOSE k \in DOMAIN m : \A j \in DOMAIN m : m[j] <= m[k]
       IN IF m[top] > 0 THEN m[top] ELSE 0

\* The float64 product quotient * 100 is the float64 next below p, for the
\* quotient float64(p / 100): the exact product lies more than half the
\* spacing of the float64 values below p under p (that spacing is halved
\* where p is a power of two).
Float64ProductBelow(p) ==
  LET half == IF p = 2^Log2Floor(p)
              THEN 2^(Log2Floor(p) + Float64Shift(p) - 2)
              ELSE 2^(Log2Floor(p) + Float64Shift(p) - 1)
  IN 0 - Float64QuotientExcess(p) > half

\* int((a / b) * 50) for exact float64 operands 0 <= a <= b, b > 0. A value
\* that is not an integer is too far from an integer for the rounding to
\* cross it; where the exact value is an integer k the quotient is
\* float64(2k / 100), its product with 50 is half its product with 100, and
\* int() gives k - 1 when that product lies below 2k.
FiftyTimesQuotient(a, b) ==
  LET k == TruncDiv(50 * a, b)
  IN IF k * b = 50 * a /\ k \in 1..49 /\ Float64ProductBelow(2 * k)
     THEN k - 1
     ELSE k

\* prSum / float64(n) is an exact float64 value.
AverageExact(prSum, n) == prSum % n = 0 \/ n \in {1, 2, 4, 8}

\* Criticality: derive from graph metrics of the snapshot st.  The values of
\* a snapshot are float64 values that are integers.  Where the average
\* PageRank is not an exact float64 value, the integer part of the exact
\* PageRank term is taken.
LabelCriticality(labeled, st) ==
  LET pr == st.PageRank
      bw == st.Betweenness
      maxPR == findMax(pr)
      maxBW == findMax(bw)
      n == Len(labeled)
      prSum == SumSeq([i \in DOMAIN labeled |-> MapGet(pr, labeled[i].ID)])
      bwSum == SumSeq([i \in DOMAIN labeled |-> MapGet(bw, labeled[i].ID)])
      maxBwLabel == MaxOut([i \in DOMAIN labeled |-> <<MapGet(bw, labeled[i].ID)>>], 1, 0)
      prTerm == IF maxPR > 0
                THEN IF AverageExact(prSum, n)
                     THEN FiftyTimesQuotient(prSum, n * maxPR)
                     ELSE TruncDiv(prSum * 50, n * maxPR)
                ELSE 0
      bwTerm == IF maxBW > 0 THEN FiftyTimesQuotient(maxBwLabel, maxBW) ELSE 0
  IN [AvgPageRank |-> [num |-> prSum, den |-> n],
      AvgBetweenness |-> [num |-> bwSum, den |-> n],
      MaxBetweenness |-> maxBwLabel,
      CriticalPathCount |-> Cardinality({i \in DOMAIN labeled :
                               MapGet(st.CriticalPathScore, labeled[i].ID) > 0}),
      BottleneckCount |-> Cardinality({i \in DOMAIN labeled :
                             MapGet(bw, labeled[i].ID) > 0}),
      CriticalityScore |-> clampScore(prTerm + bwTerm)]

\* Faulty variant of ComputeLabelHealthForLabel: the early return for a label
\* without members leaves Health and HealthLevel at their initial values.
ComputeLabelHealthForLabelNoZeroing(label, iss, c, t, st) ==
  LET labeled == LabeledIssues(iss, label)
      health == [NewLabelHealth(label) EXCEPT
                   !.Issues = [i \in DOMAIN labeled |-> labeled[i].ID],
                   !.IssueCount = Len(labeled)]
  IN IF Len(labeled) = 0
     THEN health
     ELSE LET counts == StatusCounts(labeled)
              velocity == ComputeVelocityMetrics(labeled, t)
              freshness == ComputeFreshnessMetrics(labeled, t, c.StaleThresholdDays)
              flow == LabelFlowMetrics(iss, label, labeled)
              crit == LabelCriticality(labeled, st)
              score == ComputeCompositeHealth(velocity.VelocityScore,
                         freshness.FreshnessScore, flow.FlowScore,
                         crit.CriticalityScore, c)
          IN [health EXCEPT
                !.OpenCount = counts.OpenCount,
                !.ClosedCount = counts.ClosedCount,
                !.Blocked = counts.Blocked,
                !.Velocity = velocity,
                !.Freshness = freshness,
                !.Flow = flow,
                !.Criticality = crit,
                !.Health = score,
                !.HealthLevel = HealthLevelFromScore(score)]

ComputeLabelHealthForLabel(label, iss, c, t, st) ==
  LET labeled == LabeledIssues(iss, label)
      health == [NewLabelHealth(label) EXCEPT
                   !.Issues = [i \in DOMAIN labeled |-> labeled[i].ID],
                   !.IssueCount = Len(labeled)]
  IN IF Len(labeled) = 0
     THEN [health EXCEPT !.Health = 0, !.HealthLevel = HealthLevelCritical]
     ELSE LET counts == StatusCounts(labeled)
              velocity == ComputeVelocityMetrics(labeled, t)
              freshness == ComputeFreshnessMetrics(labeled, t, c.StaleThresholdDays)
              flow == LabelFlowMetrics(iss, label, labeled)
              crit == LabelCriticality(labeled, st)
              score == ComputeCompositeHealth(velocity.VelocityScore,
                         freshness.FreshnessScore, flow.FlowScore,
                         crit.CriticalityScore, c)
          IN [health EXCEPT
                !.OpenCount = counts.OpenCount,
                !.ClosedCount = counts.ClosedCount,
                !.Blocked = counts.Blocked,
                !.Velocity = velocity,
                !.Freshness = freshness,
                !.Flow = flow,
                !.Criticality = crit,
                !.Health = score,
                !.HealthLevel = HealthLevelFromScore(score)]

(***************************************************************************)
(* Health of all labels                                                    *)
(***************************************************************************)
LabelSummaryOf(label, health) ==
  [Label |-> label,
   IssueCount |-> health.IssueCount,
   OpenCount |-> health.OpenCount,
   Health |-> health.Health,
   HealthLevel |-> health.HealthLevel,
   NeedsAttention |-> NeedsAttention(health),
   TopIssue |-> IF Len(health.Issues) > 0 THEN health.Issues[1] ELSE ""]

\* Faulty variant of SummaryLess: Health is compared ascending.
SummaryLessAscending(a, b) ==
  IF a.Health /= b.Health THEN a.Health < b.Health ELSE StringLess(a.Label, b.Label)

\* The less function of the summary sort: Health descending, Label ascending.
SummaryLess(a, b) ==
  IF a.Health /= b.Health THEN a.Health > b.Health ELSE StringLess(a.Label, b.Label)

RECURSIVE InsertSummary(_, _)
InsertSummary(sorted, x) ==
  IF sorted = <<>> THEN <<x>>
  ELSE IF SummaryLess(x, Head(sorted)) THEN <<x>> \o sorted
  ELSE <<Head(sorted)>> \o InsertSummary(Tail(sorted), x)

RECURSIVE SortSummaries(_)
SortSummaries(s) ==
  IF s = <<>> THEN <<>> ELSE InsertSummary(SortSummaries(Tail(s)), Head(s))

\* Faulty variant of AllHealthStep: a critical label is tallied but not
\* appended to AttentionNeeded.
AllHealthStepWarningOnly(result, label, health) ==
  [result EXCEPT
     !.Labels = Append(@, health),
     !.Summaries = Append(@, LabelSummaryOf(label, health)),
     !.HealthyCount = IF health.HealthLevel = HealthLevelHealthy THEN @ + 1 ELSE @,
     !.WarningCount = IF health.HealthLevel = HealthLevelWarning THEN @ + 1 ELSE @,
     !.CriticalCount = IF health.HealthLevel = HealthLevelCritical THEN @ + 1 ELSE @,
     !.AttentionNeeded =
        IF health.HealthLevel = HealthLevelWarning
        THEN Append(@, label) ELSE @]

\* The body of the label loop: append the health, the summary and the tally.
AllHealthStep(result, label, health) ==
  [result EXCEPT
     !.Labels = Append(@, health),
     !.Summaries = Append(@, LabelSummaryOf(label, health)),
     !.HealthyCount = IF health.HealthLevel = HealthLevelHealthy THEN @ + 1 ELSE @,
     !.WarningCount = IF health.HealthLevel = HealthLevelWarning THEN @ + 1 ELSE @,
     !.CriticalCount = IF health.HealthLevel = HealthLevelCritical THEN @ + 1 ELSE @,
     !.AttentionNeeded =
        IF health.HealthLevel \in {HealthLevelWarning, HealthLevelCritical}
        THEN Append(@, label) ELSE @]

RECURSIVE AllHealthLoop(_, _, _, _, _, _, _)
AllHealthLoop(result, labels, k, iss, c, t, st) ==
  IF k > Len(labels) THEN result
  ELSE AllHealthLoop(
         AllHealthStep(result, labels[k],
                       ComputeLabelHealthForLabel(labels[k], iss, c, t, st)),
         labels, k + 1, iss, c, t, st)

\* Faulty variant of ComputeAllLabelHealth: a label with fewer member issues
\* than MinIssuesForHealth is left out.
ComputeAllLabelHealthMinIssues(iss, c, t, st) ==
  LET labels == ExtractLabels(iss)
      Enough(l) == Len(LabeledIssues(iss, l)) >= c.MinIssuesForHealth
      looped == AllHealthLoop(
                  [GeneratedAt |-> t, TotalLabels |-> labels.LabelCount,
                   HealthyCount |-> 0, WarningCount |-> 0, CriticalCount |-> 0,
                   Labels |-> <<>>, Summaries |-> <<>>, AttentionNeeded |-> <<>>],
                  SelectSeq(SortStrings(labels.Labels), Enough), 1, iss, c, t, st)
  IN [looped EXCEPT !.Summaries = SortSummaries(@)]

\* st is the snapshot analyzer.Analyze() yields for the collection.
ComputeAllLabelHealth(iss, c, t, st) ==
  LET labels == ExtractLabels(iss)
      looped == AllHealthLoop(
                  [GeneratedAt |-> t, TotalLabels |-> labels.LabelCount,
                   HealthyCount |-> 0, WarningCount |-> 0, CriticalCount |-> 0,
                   Labels |-> <<>>, Summaries |-> <<>>, AttentionNeeded |-> <<>>],
                  SortStrings(labels.Labels), 1, iss, c, t, st)
  IN [looped EXCEPT !.Summaries = SortSummaries(@)]

(***************************************************************************)
(* Inputs                                                                  *)
(***************************************************************************)
\* The largest number of issues in an enumerated collection.
MaxIssues == 2

\* How far below 0 and above 100 the scores handed to HealthLevelFromScore go.
ScoreMargin == 5

\* Issue IDs are unique (data model); the issue at position i has IssueIDs[i].
IssueIDs == <<"A", "B", "C", "D", "E">>

Issue(id, status, labels, deps, created, updated, closed) ==
  [ID |-> id, Status |-> status, Labels |-> labels, Dependencies |-> deps,
   CreatedAt |-> created, UpdatedAt |-> updated, ClosedAt |-> closed]

WithIDs(s) == [i \in DOMAIN s |-> [s[i] EXCEPT !.ID = IssueIDs[i]]]

\* All collections of at most MaxIssues issues drawn from the options.
Collections(options) ==
  {WithIDs(s) : s \in UNION {[1..n -> options] : n \in 0..MaxIssues}}

\* The instant of a run: day 100, in hours.
Now == 100 * HoursPerDay

DaysAgo(d) == Now - d * HoursPerDay

\* A snapshot with no centrality data.
EmptyStats == [PageRank |-> EmptyMap, Betweenness |-> EmptyMap,
               CriticalPathScore |-> EmptyMap]

\* Label lists: none, one label twice, two in descending order, a repeated
\* label before a third label, an empty-string label beside a label.
FlowLabelLists ==
  {<<>>, <<"api", "api">>, <<"ui", "api">>, <<"ui", "ui", "core">>,
   <<"", "core">>}

\* Dependency lists: none, a blocks edge to the second issue, and a blocks
\* edge to the first issue after a blocks edge to an issue that is not in the
\* collection, a nil entry and a non-blocks edge.
FlowDepLists ==
  {<<>>, <<Dep("B", DepBlocks)>>,
   <<Dep("Z", DepBlocks), NilDep, Dep("B", DepRelated), Dep("A", DepBlocks)>>}

FlowIssueOptions ==
  {Issue("", st, ls, ds, ZeroTime, ZeroTime, NilTime) :
     st \in {StatusOpen, StatusClosed}, ls \in FlowLabelLists, ds \in FlowDepLists}

\* The collection of TestComputeCrossLabelFlow.
TestFlowIssues ==
  <<Issue("A", StatusOpen, <<"api">>, <<>>, ZeroTime, ZeroTime, NilTime),
    Issue("B", StatusOpen, <<"ui">>, <<Dep("A", DepBlocks)>>, ZeroTime, ZeroTime, NilTime),
    Issue("C", StatusOpen, <<"api", "core">>, <<>>, ZeroTime, ZeroTime, NilTime),
    Issue("D", StatusOpen, <<"ui", "core">>, <<Dep("C", DepBlocks)>>, ZeroTime, ZeroTime, NilTime),
    Issue("E", StatusClosed, <<"api">>, <<Dep("A", DepBlocks)>>, ZeroTime, ZeroTime, NilTime)>>

FlowConfigs ==
  {DefaultLabelHealthConfig,
   [DefaultLabelHealthConfig EXCEPT !.IncludeClosedInFlow = TRUE]}

(***************************************************************************)
(* Calls of the label catalog and of the cross-label flow builder          *)
(***************************************************************************)
InitLabels ==
  /\ issues \in Collections(FlowIssueOptions) \cup {TestFlowIssues}
  /\ cfg \in FlowConfigs
  /\ now = Now
  /\ stats = EmptyStats
  /\ call = [op |-> "none"]
  /\ ret = <<>>

CallExtractLabels ==
  /\ call' = [op |-> "ExtractLabels"]
  /\ ret' = ExtractLabels(issues)
  /\ UNCHANGED <<issues, cfg, now, stats>>

CallComputeCrossLabelFlow ==
  /\ call' = [op |-> "ComputeCrossLabelFlow"]
  /\ ret' = ComputeCrossLabelFlow(issues, cfg)
  /\ UNCHANGED <<issues, cfg, now, stats>>

CallGetLabelCooccurrence ==
  /\ call' = [op |-> "GetLabelCooccurrence"]
  /\ ret' = GetLabelCooccurrence(issues)
  /\ UNCHANGED <<issues, cfg, now, stats>>

NextLabels ==
  \/ CallExtractLabels
  \/ CallComputeCrossLabelFlow
  \/ CallGetLabelCooccurrence

Spec == InitLabels /\ [][NextLabels]_vars

(***************************************************************************)
(* Calls of the score helpers                                              *)
(***************************************************************************)
Weights(v, f, fl, c) ==
  [DefaultLabelHealthConfig EXCEPT !.VelocityWeight = v, !.FreshnessWeight = f,
                                   !.FlowWeight = fl, !.CriticalityWeight = c]

\* The default weights, weights that sum to 2, to 0.99 and to 0, a negative
\* weight, unequal weights.
ScoreConfigs ==
  {DefaultLabelHealthConfig, Weights(50, 50, 50, 50), Weights(33, 33, 33, 0),
   Weights(0, 0, 0, 0), Weights(-25, 25, 25, 25), Weights(10, 20, 30, 40)}

Scores == (0 - ScoreMargin)..(100 + ScoreMargin)

ComponentValues == {0, 1, 50, 100}

\* Every mix of the component values, four equal components, and components
\* outside 0..100.
ComponentTuples ==
  (ComponentValues \X ComponentValues \X ComponentValues \X ComponentValues)
    \cup {<<v, v, v, v>> : v \in 0..100}
    \cup {<<-10, 0, 0, 0>>, <<150, 150, 150, 150>>, <<99, 33, 1, 100>>}

InitScore ==
  /\ issues = <<>>
  /\ cfg \in ScoreConfigs
  /\ now = Now
  /\ stats = EmptyStats
  /\ call = [op |-> "none"]
  /\ ret = <<>>

CallHealthLevelFromScore ==
  \E score \in Scores :
    /\ call' = [op |-> "HealthLevelFromScore", score |-> score]
    /\ ret' = HealthLevelFromScore(score)
    /\ UNCHANGED <<issues, cfg, now, stats>>

CallComputeCompositeHealth ==
  \E args \in ComponentTuples :
    /\ call' = [op |-> "ComputeCompositeHealth", velocity |-> args[1],
                freshness |-> args[2], flow |-> args[3], criticality |-> args[4]]
    /\ ret' = ComputeCompositeHealth(args[1], args[2], args[3], args[4], cfg)
    /\ UNCHANGED <<issues, cfg, now, stats>>

NextScore ==
  \/ CallHealthLevelFromScore
  \/ CallComputeCompositeHealth

SpecScore == InitScore /\ [][NextScore]_vars

(***************************************************************************)
(* Calls of the per-label health and of the orchestrator                   *)
(***************************************************************************)
\* Issues with timestamps: updated an hour ago, 60 days ago, in the future,
\* never, exactly at the default stale threshold; closed this week, last
\* week, 20 days ago, not at all. Two of them depend on an issue Z that is
\* in no collection.
HealthIssueOptions ==
  {Issue("", StatusOpen, <<"api">>, <<>>, DaysAgo(50), Now - 1, NilTime),
   Issue("", StatusClosed, <<"ui", "api">>,
         <<Dep("A", DepBlocks), Dep("Z", DepBlocks)>>,
         DaysAgo(90), DaysAgo(60), DaysAgo(3)),
   Issue("", StatusBlocked, <<"ui">>, <<Dep("B", DepBlocks), Dep("Z", DepBlocks)>>,
         ZeroTime, Now + 2 * HoursPerDay, DaysAgo(10)),
   Issue("", StatusInProgress, <<>>, <<>>, ZeroTime, ZeroTime, NilTime),
   Issue("", StatusClosed, <<"core", "">>, <<Dep("A", DepBlocks)>>,
         DaysAgo(20), DaysAgo(20), DaysAgo(20)),
   Issue("", StatusOpen, <<"api", "api">>, <<Dep("A", DepRelated)>>,
         DaysAgo(5), DaysAgo(14), NilTime)}

HealthConfig(v, f, fl, c, stale) ==
  [Weights(v, f, fl, c) EXCEPT !.StaleThresholdDays = stale]

HealthConfigs ==
  {DefaultLabelHealthConfig,
   HealthConfig(50, 50, 50, 50, 1),
   HealthConfig(-100, 25, 25, 25, 0),
   HealthConfig(100, 100, 100, 100, -3),
   HealthConfig(0, 0, 0, 0, 14),
   HealthConfig(10, 20, 30, 40, 30)}

\* Centrality snapshots (PageRank in thousandths): none, one for every
\* issue, one that knows only the first issue.
HealthStats ==
  {EmptyStats,
   [PageRank |-> [id \in {"A", "B", "C"} |->
                    IF id = "A" THEN 500 ELSE IF id = "B" THEN 300 ELSE 200],
    Betweenness |-> [id \in {"A", "B", "C"} |-> IF id = "B" THEN 2 ELSE 0],
    CriticalPathScore |-> [id \in {"A", "B", "C"} |->
                             IF id = "A" THEN 1 ELSE IF id = "B" THEN 2 ELSE 0]],
   [PageRank |-> [id \in {"A"} |-> 1000],
    Betweenness |-> [id \in {"A"} |-> 3],
    CriticalPathScore |-> EmptyMap]}

\* Reference instants: day 100 and four days later.
HealthInstants == {Now, Now + 4 * HoursPerDay}

InitHealth ==
  /\ issues \in Collections(HealthIssueOptions)
  /\ cfg \in HealthConfigs
  /\ now \in HealthInstants
  /\ stats \in HealthStats
  /\ call = [op |-> "none"]
  /\ ret = <<>>

CallComputeLabelHealthForLabel ==
  \E label \in LabelUniverse :
    /\ call' = [op |-> "ComputeLabelHealthForLabel", label |-> label]
    /\ ret' = ComputeLabelHealthForLabel(label, issues, cfg, now, stats)
    /\ UNCHANGED <<issues, cfg, now, stats>>

CallComputeAllLabelHealth ==
  /\ call' = [op |-> "ComputeAllLabelHealth"]
  /\ ret' = ComputeAllLabelHealth(issues, cfg, now, stats)
  /\ UNCHANGED <<issues, cfg, now, stats>>

NextHealth ==
  \/ CallComputeLabelHealthForLabel
  \/ CallComputeAllLabelHealth

SpecHealth == InitHealth /\ [][NextHealth]_vars

(***************************************************************************)
(* Calls of the velocity computer                                          *)
(***************************************************************************)
\* The largest number of closures in one week of an enumerated list.
MaxRun == 11

\* An issue of which only the creation and closing instants matter.
VelocityIssue(status, created, closed) ==
  Issue("", status, <<"api">>, <<>>, created, created, closed)

\* Issue IDs by position, for lists longer than IssueIDs.
NumberedIDs(s) == [i \in DOMAIN s |-> [s[i] EXCEPT !.ID = ToString(i)]]

RunOf(n, issue) == [i \in 1..n |-> issue]

\* Issues beside the two weekly runs: none; one never closed; a closed status
\* without ClosedAt; a reopened issue closed yesterday; closures exactly 7,
\* 14 and 30 days ago; an hour inside and outside the 7-day window; 20 and 29
\* days ago; 40 days ago without CreatedAt; a ClosedAt later than now.
VelocityExtras ==
  {<<>>,
   <<VelocityIssue(StatusOpen, DaysAgo(30), NilTime)>>,
   <<VelocityIssue(StatusClosed, DaysAgo(30), NilTime)>>,
   <<VelocityIssue(StatusOpen, DaysAgo(30), DaysAgo(1))>>,
   <<VelocityIssue(StatusClosed, DaysAgo(30), DaysAgo(7))>>,
   <<VelocityIssue(StatusClosed, DaysAgo(30), DaysAgo(14))>>,
   <<VelocityIssue(StatusClosed, DaysAgo(60), DaysAgo(30))>>,
   <<VelocityIssue(StatusClosed, DaysAgo(30), DaysAgo(7) + 1),
     VelocityIssue(StatusClosed, DaysAgo(30), DaysAgo(7) - 1)>>,
   <<VelocityIssue(StatusClosed, DaysAgo(30), DaysAgo(20)),
     VelocityIssue(StatusClosed, DaysAgo(30), DaysAgo(29))>>,
   <<VelocityIssue(StatusClosed, ZeroTime, DaysAgo(40))>>,
   <<VelocityIssue(StatusClosed, DaysAgo(30), Now + HoursPerDay)>>}

\* Lists as the trend tests build them: a run of closures in the current
\* week, a run in the previous week, then the extras.
VelocityCollections ==
  {NumberedIDs(RunOf(c, VelocityIssue(StatusClosed, DaysAgo(30), DaysAgo(2)))
                 \o RunOf(p, VelocityIssue(StatusClosed, DaysAgo(30), DaysAgo(9)))
                 \o e) :
     c \in 0..MaxRun, p \in 0..MaxRun, e \in VelocityExtras}

InitVelocity ==
  /\ issues \in VelocityCollections
  /\ cfg = DefaultLabelHealthConfig
  /\ now = Now
  /\ stats = EmptyStats
  /\ call = [op |-> "none"]
  /\ ret = <<>>

CallComputeVelocityMetrics ==
  /\ call' = [op |-> "ComputeVelocityMetrics"]
  /\ ret' = ComputeVelocityMetrics(issues, now)
  /\ UNCHANGED <<issues, cfg, now, stats>>

NextVelocity == CallComputeVelocityMetrics

SpecVelocity == InitVelocity /\ [][NextVelocity]_vars

(***************************************************************************)
(* Calls of the freshness computer                                         *)
(***************************************************************************)
\* An issue of which only the status and the creation and update instants
\* matter.
FreshnessIssue(status, created, updated) ==
  Issue("", status, <<"api">>, <<>>, created, updated,
        IF status = StatusClosed THEN updated ELSE NilTime)

\* The issues of the freshness tests (created and updated 5 days ago; created
\* 20 and updated 10 days ago; updated an hour ago; updated 60 days ago, here
\* closed and created before every other issue), an issue without
\* timestamps, one updated 11 days ago, one updated exactly 14 days ago, one
\* updated later than now.
FreshnessIssueOptions ==
  {FreshnessIssue(StatusOpen, DaysAgo(5), DaysAgo(5)),
   FreshnessIssue(StatusOpen, DaysAgo(20), DaysAgo(10)),
   FreshnessIssue(StatusOpen, ZeroTime, Now - 1),
   FreshnessIssue(StatusClosed, DaysAgo(90), DaysAgo(60)),
   FreshnessIssue(StatusOpen, ZeroTime, ZeroTime),
   FreshnessIssue(StatusOpen, DaysAgo(11), DaysAgo(11)),
   FreshnessIssue(StatusInProgress, DaysAgo(30), DaysAgo(14)),
   FreshnessIssue(StatusBlocked, DaysAgo(2), Now + 2 * HoursPerDay)}

\* staleDays: the default, the two values of the default-threshold test, one
\* day, ten days, thirty days.
StaleDayArguments == {DefaultStaleThresholdDays, 0, -5, 1, 10, 30}

InitFreshness ==
  /\ issues \in Collections(FreshnessIssueOptions)
  /\ cfg = DefaultLabelHealthConfig
  /\ now = Now
  /\ stats = EmptyStats
  /\ call = [op |-> "none"]
  /\ ret = <<>>

CallComputeFreshnessMetrics ==
  \E staleDays \in StaleDayArguments :
    /\ call' = [op |-> "ComputeFreshnessMetrics", staleDays |-> staleDays]
    /\ ret' = ComputeFreshnessMetrics(issues, now, staleDays)
    /\ UNCHANGED <<issues, cfg, now, stats>>

NextFreshness == CallComputeFreshnessMetrics

SpecFreshness == InitFreshness /\ [][NextFreshness]_vars

(***************************************************************************)
(* Fan-out of the per-label health over workers                            *)
(*                                                                         *)
(* The label loop of ComputeAllLabelHealth run as one worker per label of  *)
(* the sorted label list.  A worker reads the shared inputs, computes the  *)
(* health of its label and writes the slot of its label's index; the       *)
(* fan-in waits for all workers, walks the slots in index order and sorts  *)
(* the summaries.  call.running holds the workers that have started,       *)
(* call.completed the indexes in completion order, ret the slots (a slot   *)
(* is a sequence of zero or one LabelHealth).                              *)
(***************************************************************************)
\* The inputs of the fan-out runs: every collection, two configurations.
InitWorkers ==
  /\ issues \in Collections(HealthIssueOptions)
  /\ cfg \in {DefaultLabelHealthConfig, HealthConfig(10, 20, 30, 40, 30)}
  /\ now = Now
  /\ stats \in HealthStats
  /\ call = [op |-> "none"]
  /\ ret = <<>>

\* Faulty variant of WriteSlot: the result goes to the first free slot, the
\* slots end up in completion order.
WriteSlotFirstFree(slots, k, health) ==
  LET free == CHOOSE i \in 1..Len(slots) :
                /\ slots[i] = <<>>
                /\ \A j \in 1..(i - 1) : slots[j] /= <<>>
  IN [slots EXCEPT ![free] = <<health>>]

\* A worker writes the slot of its own index and no other.
WriteSlot(slots, k, health) == [slots EXCEPT ![k] = <<health>>]

RECURSIVE FanInLoop(_, _, _, _)
FanInLoop(result, labels, slots, k) ==
  IF k > Len(labels) THEN result
  ELSE FanInLoop(AllHealthStep(result, labels[k], slots[k][1]), labels, slots, k + 1)

\* The assembly after all workers are done, followed by the summary sort.
FanIn(iss, labels, slots, t) ==
  LET looped == FanInLoop(
                  [GeneratedAt |-> t, TotalLabels |-> ExtractLabels(iss).LabelCount,
                   HealthyCount |-> 0, WarningCount |-> 0, CriticalCount |-> 0,
                   Labels |-> <<>>, Summaries |-> <<>>, AttentionNeeded |-> <<>>],
                  labels, slots, 1)
  IN [looped EXCEPT !.Summaries = SortSummaries(@)]

StartFanOut ==
  /\ call.op /= "FanOut"
  /\ LET labels == SortStrings(ExtractLabels(issues).Labels)
     IN /\ call' = [op |-> "FanOut", labels |-> labels,
                    running |-> {}, completed |-> <<>>]
        /\ ret' = [k \in 1..Len(labels) |-> <<>>]
  /\ UNCHANGED <<issues, cfg, now, stats>>

WorkerStart ==
  /\ call.op = "FanOut"
  /\ \E k \in 1..Len(call.labels) :
       /\ k \notin call.running
       /\ k \notin SeqToSet(call.completed)
       /\ call' = [call EXCEPT !.running = @ \cup {k}]
  /\ UNCHANGED <<issues, cfg, now, stats, ret>>

WorkerFinish ==
  /\ call.op = "FanOut"
  /\ \E k \in call.running :
       /\ ret' = WriteSlot(ret, k,
                   ComputeLabelHealthForLabel(call.labels[k], issues, cfg, now, stats))
       /\ call' = [call EXCEPT !.running = @ \ {k},
                               !.completed = Append(@, k)]
  /\ UNCHANGED <<issues, cfg, now, stats>>

CallFanIn ==
  /\ call.op = "FanOut"
  /\ Len(call.completed) = Len(call.labels)
  /\ call' = [op |-> "FanIn", completed |-> call.completed]
  /\ ret' = FanIn(issues, call.labels, ret, now)
  /\ UNCHANGED <<issues, cfg, now, stats>>

NextWorkers ==
  \/ StartFanOut
  \/ WorkerStart
  \/ WorkerFinish
  \/ CallFanIn

SpecWorkers == InitWorkers /\ [][NextWorkers]_vars

(***************************************************************************)
(* Calls under configurations that differ in MinIssuesForHealth            *)
(***************************************************************************)
\* Values of the min_issues_for_health setting: none, the default, and one
\* above the size of every enumerated collection.
MinIssuesValues == {0, 1, MaxIssues + 2}

InitMinIssues ==
  /\ issues \in Collections(HealthIssueOptions)
  /\ cfg \in {[c EXCEPT !.MinIssuesForHealth = m] :
                c \in {DefaultLabelHealthConfig,
                       [HealthConfig(10, 20, 30, 40, 30)
                          EXCEPT !.IncludeClosedInFlow = TRUE]},
                m \in MinIssuesValues}
  /\ now = Now
  /\ stats \in HealthStats
  /\ call = [op |-> "none"]
  /\ ret = <<>>

NextMinIssues ==
  \/ CallComputeLabelHealthForLabel
  \/ CallComputeAllLabelHealth
  \/ CallComputeCrossLabelFlow

SpecMinIssues == InitMinIssues /\ [][NextMinIssues]_vars

(***************************************************************************)
(* Common labels of several label sets                                     *)
(***************************************************************************)
\* Faulty variant of CountLabelSet: without the seen map, every occurrence
\* of a label counts.
CountLabelSetEveryOccurrence(counts, labels, k, seen) ==
  LET Count[i \in 0..Len(labels)] ==
        IF i = 0 THEN counts ELSE MapInc(Count[i - 1], labels[i])
  IN Count[Len(labels)]

\* The inner loop of GetCommonLabels over one label set, from position k:
\* a label counts once per set, seen holds the labels already counted.
RECURSIVE CountLabelSet(_, _, _, _)
CountLabelSet(counts, labels, k, seen) ==
  IF k > Len(labels) THEN counts
  ELSE IF labels[k] \notin seen
       THEN CountLabelSet(MapInc(counts, labels[k]), labels, k + 1, seen \cup {labels[k]})
       ELSE CountLabelSet(counts, labels, k + 1, seen)

\* The outer loop over the label sets.
RECURSIVE CountLabelSets(_, _, _)
CountLabelSets(counts, labelSets, n) ==
  IF n > Len(labelSets) THEN counts
  ELSE CountLabelSets(CountLabelSet(counts, labelSets[n], 1, {}), labelSets, n + 1)

\* A nil slice and an empty slice are both the empty sequence: the function
\* returns nil when called without sets and when no label is common.
GetCommonLabels(labelSets) ==
  IF Len(labelSets) = 0 THEN <<>>
  ELSE LET counts == CountLabelSets(EmptyMap, labelSets, 1)
           common == MapKeys({label \in DOMAIN counts : counts[label] = Len(labelSets)})
       IN SortStrings(common)

\* The largest number of label sets in one call.
MaxSets == 3

InitCommon ==
  /\ issues = <<>>
  /\ cfg = DefaultLabelHealthConfig
  /\ now = Now
  /\ stats = EmptyStats
  /\ call = [op |-> "none"]
  /\ ret = <<>>

\* Label sets: none, two labels, a repeated label, an empty label, three
\* labels out of order.
CallGetCommonLabels ==
  \E n \in 0..MaxSets :
  \E labelSets \in [1..n -> {<<>>, <<"ui", "api">>, <<"ui", "ui", "core">>,
                             <<"", "core">>, <<"core", "api", "ui">>}] :
    /\ call' = [op |-> "GetCommonLabels", labelSets |-> labelSets]
    /\ ret' = GetCommonLabels(labelSets)
    /\ UNCHANGED <<issues, cfg, now, stats>>

NextCommon == CallGetCommonLabels

SpecCommon == InitCommon /\ [][NextCommon]_vars

(***************************************************************************)
(* Per-label health over issues of every status                            *)
(***************************************************************************)
\* The four statuses of the model package, a status the package does not
\* define, and the empty status.
StatusValues ==
  {StatusOpen, StatusInProgress, StatusBlocked, StatusClosed, "deferred", ""}

InitStatus ==
  /\ issues \in Collections(
                   {Issue("", st, ls, <<>>, DaysAgo(20), DaysAgo(2), NilTime) :
                      st \in StatusValues, ls \in {<<"api">>, <<"ui", "api", "ui">>}})
  /\ cfg = DefaultLabelHealthConfig
  /\ now = Now
  /\ stats = EmptyStats
  /\ call = [op |-> "none"]
  /\ ret = <<>>

NextStatus == CallComputeLabelHealthForLabel

SpecStatus == InitStatus /\ [][NextStatus]_vars

(***************************************************************************)
(* Per-label health under centrality snapshots with fractional ratios      *)
(***************************************************************************)
\* Snapshots: none; ratios of one third; a PageRank ratio of 0.58 with no
\* betweenness at all; PageRank zero everywhere with betweenness on an issue
\* that may be missing from the collection.
CriticalityStats ==
  {EmptyStats,
   [PageRank |-> [id \in {"A", "B", "C"} |->
                    IF id = "A" THEN 100 ELSE IF id = "B" THEN 300 ELSE 200],
    Betweenness |-> [id \in {"A", "B", "C"} |->
                       IF id = "A" THEN 1 ELSE IF id = "B" THEN 3 ELSE 0],
    CriticalPathScore |-> [id \in {"A", "B", "C"} |->
                             IF id = "A" THEN 1 ELSE IF id = "B" THEN 0 ELSE 2]],
   [PageRank |-> [id \in {"A", "B"} |-> IF id = "A" THEN 29 ELSE 50],
    Betweenness |-> [id \in {"A", "B"} |-> 0],
    CriticalPathScore |-> EmptyMap],
   [PageRank |-> [id \in {"A"} |-> 0],
    Betweenness |-> [id \in {"A", "B"} |-> IF id = "A" THEN 2 ELSE 4],
    CriticalPathScore |-> [id \in {"B"} |-> 1]]}

InitCriticality ==
  /\ issues \in Collections(
                   {Issue("", StatusOpen, ls, <<>>, DaysAgo(20), DaysAgo(2), NilTime) :
                      ls \in {<<>>, <<"api">>, <<"ui">>, <<"ui", "api">>}})
  /\ cfg = DefaultLabelHealthConfig
  /\ now = Now
  /\ stats \in CriticalityStats
  /\ call = [op |-> "none"]
  /\ ret = <<>>

NextCriticality == CallComputeLabelHealthForLabel

SpecCriticality == InitCriticality /\ [][NextCriticality]_vars

(***************************************************************************)
(* Tutorial overlay (package ui, src/pkg/ui/tutorial.go)                   *)
(*                                                                         *)
(* ret holds the TutorialModel value the caller keeps (Update returns it,  *)
(* the pointer methods change it in place), call the last operation.       *)
(* Page indexes are 0-based as in the source; pages[i] of the source is    *)
(* pages[i + 1] here.  progress is the set of page IDs mapped to true.     *)
(***************************************************************************)
focusTutorialContent == 0
focusTutorialTOC == 1

TutorialPage(id, section, contexts) ==
  [ID |-> id, Section |-> section, Contexts |-> contexts]

defaultTutorialPages ==
  <<TutorialPage("intro", "Getting Started", <<>>),
    TutorialPage("navigation", "Getting Started", <<>>),
    TutorialPage("list-view", "Views", <<"list">>),
    TutorialPage("board-view", "Views", <<"board">>),
    TutorialPage("graph-view", "Views", <<"graph">>),
    TutorialPage("working-with-beads", "Core Concepts", <<>>),
    TutorialPage("ai-integration", "Advanced", <<>>),
    TutorialPage("keyboard-reference", "Reference", <<>>)>>

NewTutorialModel ==
  [pages |-> defaultTutorialPages,
   currentPage |-> 0,
   scrollOffset |-> 0,
   tocVisible |-> FALSE,
   progress |-> {},
   width |-> 80,
   height |-> 24,
   contextMode |-> FALSE,
   context |-> "",
   focus |-> focusTutorialContent,
   shouldClose |-> FALSE,
   tocCursor |-> 0]

\* Pages filtered by context if contextMode is enabled.
visiblePages(m) ==
  IF ~m.contextMode \/ m.context = "" THEN m.pages
  ELSE SelectSeq(m.pages,
                 LAMBDA page : \/ Len(page.Contexts) = 0
                               \/ \E k \in DOMAIN page.Contexts :
                                    page.Contexts[k] = m.context)

NextPage(m) ==
  IF m.currentPage < Len(visiblePages(m)) - 1
  THEN [m EXCEPT !.currentPage = @ + 1, !.scrollOffset = 0]
  ELSE m

PrevPage(m) ==
  IF m.currentPage > 0
  THEN [m EXCEPT !.currentPage = @ - 1, !.scrollOffset = 0]
  ELSE m

JumpToPage(m, index) ==
  IF index >= 0 /\ index < Len(visiblePages(m))
  THEN [m EXCEPT !.currentPage = index, !.scrollOffset = 0]
  ELSE m

\* Jumps to the first visible page whose ID or Section is sectionID.
JumpToSection(m, sectionID) ==
  LET pages == visiblePages(m)
      hits == {i \in DOMAIN pages :
                 pages[i].ID = sectionID \/ pages[i].Section = sectionID}
  IN IF hits = {} THEN m
     ELSE LET first == CHOOSE i \in hits : \A j \in hits : i <= j
          IN [m EXCEPT !.currentPage = first - 1, !.scrollOffset = 0]

SetContext(m, ctx) ==
  [m EXCEPT !.context = ctx, !.currentPage = 0, !.scrollOffset = 0]

SetContextMode(m, enabled) ==
  IF enabled
  THEN [m EXCEPT !.contextMode = TRUE, !.currentPage = 0, !.scrollOffset = 0]
  ELSE [m EXCEPT !.contextMode = FALSE]

\* visibleHeight / 2 of the half-page scroll keys.
HalfPage(m) ==
  LET visibleHeight == IF m.height - 10 < 5 THEN 5 ELSE m.height - 10
  IN visibleHeight \div 2

DigitKeys == <<"1", "2", "3", "4", "5", "6", "7", "8", "9">>

\* int(msg.String()[0] - '0') for a digit key.
PageNum(key) == CHOOSE d \in DOMAIN DigitKeys : DigitKeys[d] = key

\* Keys when the content area has focus.
handleContentKeys(m, key) ==
  IF key \in {"right", "l", "n", " "} THEN NextPage(m)
  ELSE IF key \in {"left", "h", "p", "shift+tab"} THEN PrevPage(m)
  ELSE IF key \in {"j", "down"} THEN [m EXCEPT !.scrollOffset = @ + 1]
  ELSE IF key \in {"k", "up"}
       THEN IF m.scrollOffset > 0 THEN [m EXCEPT !.scrollOffset = @ - 1] ELSE m
  ELSE IF key = "ctrl+d" THEN [m EXCEPT !.scrollOffset = @ + HalfPage(m)]
  ELSE IF key = "ctrl+u"
       THEN [m EXCEPT !.scrollOffset =
               IF @ - HalfPage(m) < 0 THEN 0 ELSE @ - HalfPage(m)]
  ELSE IF key \in {"g", "home"} THEN [m EXCEPT !.scrollOffset = 0]
  ELSE IF key \in {"G", "end"} THEN [m EXCEPT !.scrollOffset = 9999]
  ELSE IF key \in SeqToSet(DigitKeys)
       THEN IF PageNum(key) > 0 /\ PageNum(key) <= Len(visiblePages(m))
            THEN JumpToPage(m, PageNum(key) - 1)
            ELSE m
  ELSE m

\* Keys when the TOC has focus.
handleTOCKeys(m, key) ==
  LET pages == visiblePages(m)
  IN IF key \in {"j", "down"}
     THEN IF m.tocCursor < Len(pages) - 1 THEN [m EXCEPT !.tocCursor = @ + 1] ELSE m
     ELSE IF key \in {"k", "up"}
          THEN IF m.tocCursor > 0 THEN [m EXCEPT !.tocCursor = @ - 1] ELSE m
     ELSE IF key \in {"g", "home"} THEN [m EXCEPT !.tocCursor = 0]
     ELSE IF key \in {"G", "end"} THEN [m EXCEPT !.tocCursor = Len(pages) - 1]
     ELSE IF key \in {"enter", " "}
          THEN [JumpToPage(m, m.tocCursor) EXCEPT !.focus = focusTutorialContent]
     ELSE IF key \in {"h", "left"} THEN [m EXCEPT !.focus = focusTutorialContent]
     ELSE m

KeyMsg(key) == [kind |-> "KeyMsg", key |-> key]

Update(m, msg) ==
  IF msg.kind /= "KeyMsg" THEN m
  ELSE IF msg.key \in {"esc", "q"}
       THEN LET pages == visiblePages(m)
            IN [m EXCEPT
                  !.progress = IF m.currentPage >= 0 /\ m.currentPage < Len(pages)
                               THEN @ \cup {pages[m.currentPage + 1].ID}
                               ELSE @,
                  !.shouldClose = TRUE]
  ELSE IF msg.key = "t"
       THEN IF ~m.tocVisible
            THEN [m EXCEPT !.tocVisible = TRUE, !.focus = focusTutorialTOC,
                           !.tocCursor = m.currentPage]
            ELSE [m EXCEPT !.tocVisible = FALSE, !.focus = focusTutorialContent]
  ELSE IF msg.key = "tab"
       THEN IF m.tocVisible
            THEN IF m.focus = focusTutorialContent
                 THEN [m EXCEPT !.focus = focusTutorialTOC, !.tocCursor = m.currentPage]
                 ELSE [m EXCEPT !.focus = focusTutorialContent]
            ELSE NextPage(m)
  ELSE IF m.focus = focusTutorialTOC /\ m.tocVisible
       THEN handleTOCKeys(m, msg.key)
  ELSE handleContentKeys(m, msg.key)

\* The largest scroll offset followed besides the end offset 9999.
ScrollCap == 7

\* The largest number of pages marked as viewed.
MaxViewed == 1

\* Update is followed while the model stays within the two bounds; the
\* other operations change neither the scroll offset upwards nor progress.

WithinTutorialBounds(m) ==
  /\ m.scrollOffset \in (0 - ScrollCap)..ScrollCap \cup {9999}
  /\ Cardinality(m.progress) <= MaxViewed

\* One key of every case of the three switches, a key of none, and a message
\* that is not a key message.
TutorialMessages ==
  {KeyMsg(k) : k \in {"esc", "t", "tab", "right", "left", "h", " ", "j", "k",
                      "ctrl+d", "ctrl+u", "g", "G", "1", "6", "9", "enter", "x"}}
    \cup {[kind |-> "WindowSizeMsg"]}

InitTutorial ==
  /\ issues = <<>>
  /\ cfg = DefaultLabelHealthConfig
  /\ now = Now
  /\ stats = EmptyStats
  /\ call = [op |-> "NewTutorialModel"]
  /\ ret = NewTutorialModel

CallUpdate ==
  \E msg \in TutorialMessages :
    /\ WithinTutorialBounds(Update(ret, msg))
    /\ call' = [op |-> "Update"]
    /\ ret' = Update(ret, msg)
    /\ UNCHANGED <<issues, cfg, now, stats>>

CallNextPage ==
  /\ call' = [op |-> "NextPage"]
  /\ ret' = NextPage(ret)
  /\ UNCHANGED <<issues, cfg, now, stats>>

CallPrevPage ==
  /\ call' = [op |-> "PrevPage"]
  /\ ret' = PrevPage(ret)
  /\ UNCHANGED <<issues, cfg, now, stats>>

CallJumpToPage ==
  \E index \in -1..Len(defaultTutorialPages) :
    /\ call' = [op |-> "JumpToPage"]
    /\ ret' = JumpToPage(ret, index)
    /\ UNCHANGED <<issues, cfg, now, stats>>

\* A section, a page ID, the last section, and a name of neither.
CallJumpToSection ==
  \E sectionID \in {"Views", "graph-view", "Reference", "none"} :
    /\ call' = [op |-> "JumpToSection"]
    /\ ret' = JumpToSection(ret, sectionID)
    /\ UNCHANGED <<issues, cfg, now, stats>>

\* Contexts: none, one with a page of its own, one without.
CallSetContext ==
  \E ctx \in {"", "list", "help"} :
    /\ call' = [op |-> "SetContext"]
    /\ ret' = SetContext(ret, ctx)
    /\ UNCHANGED <<issues, cfg, now, stats>>

CallSetContextMode ==
  \E enabled \in BOOLEAN :
    /\ call' = [op |-> "SetContextMode"]
    /\ ret' = SetContextMode(ret, enabled)
    /\ UNCHANGED <<issues, cfg, now, stats>>

NextTutorial ==
  \/ CallUpdate
  \/ CallNextPage
  \/ CallPrevPage
  \/ CallJumpToPage
  \/ CallJumpToSection
  \/ CallSetContext
  \/ CallSetContextMode

SpecTutorial == InitTutorial /\ [][NextTutorial]_vars

(***************************************************************************)
(* Properties                                                              *)
(***************************************************************************)
ScoreRange == 0..100

HealthScores(h) ==
  {h.Velocity.VelocityScore, h.Freshness.FreshnessScore, h.Flow.FlowScore,
   h.Criticality.CriticalityScore, h.Health}

\* C1: every velocity, freshness, flow, criticality and composite health
\* score in the result of ComputeLabelHealthForLabel and of
\* ComputeAllLabelHealth lies in 0..100, for every collection, instant,
\* snapshot and configuration (weights negative or not summing to 1, any
\* stale threshold).
C1_ScoresInRange ==
  /\ call.op = "ComputeLabelHealthForLabel" => HealthScores(ret) \subseteq ScoreRange
  /\ call.op = "ComputeAllLabelHealth" =>
       /\ \A i \in DOMAIN ret.Labels : HealthScores(ret.Labels[i]) \subseteq ScoreRange
       /\ \A i \in DOMAIN ret.Summaries : ret.Summaries[i].Health \in ScoreRange

\* A label with members whose weighted sum is above 100 before the clamp.
C1_Witness ==
  /\ call.op = "ComputeLabelHealthForLabel"
  /\ ret.IssueCount > 0
  /\ WeightedSum(ret.Velocity.VelocityScore, ret.Freshness.FreshnessScore,
                 ret.Flow.FlowScore, ret.Criticality.CriticalityScore, cfg)
       > 100 * WeightScale
  /\ ret.Health = 100

\* C2: HealthLevelFromScore maps every integer score to exactly one level:
\* healthy iff score >= 70, warning iff 40 <= score < 70, critical iff
\* score < 40; so 100 and 70 are healthy, 69 and 40 warning, 39 and 0 critical.
C2_HealthLevel ==
  call.op = "HealthLevelFromScore" =>
    /\ ret \in {"healthy", "warning", "critical"}
    /\ ret = "healthy" <=> call.score >= 70
    /\ ret = "warning" <=> (40 <= call.score /\ call.score < 70)
    /\ ret = "critical" <=> call.score < 40
    /\ call.score \in {100, 70} => ret = "healthy"
    /\ call.score \in {69, 40} => ret = "warning"
    /\ call.score \in {39, 0} => ret = "critical"

C2_Witness ==
  call.op = "HealthLevelFromScore" /\ call.score = 70 /\ ret = "healthy"

\* The integer nearest to x / WeightScale, a tie going to the larger one.
NearestInteger(x) ==
  CHOOSE n \in -1000..1000 :
    2 * WeightScale * n - WeightScale <= 2 * x /\ 2 * x < 2 * WeightScale * n + WeightScale

InputLabels ==
  {l \in LabelUniverse :
     l /= "" /\ \E i \in DOMAIN issues : \E k \in DOMAIN issues[i].Labels :
                  issues[i].Labels[k] = l}

\* The positions of a label in a label list.
Occurrences(labels, l) == {k \in DOMAIN labels : labels[k] = l}

\* The position of a label in the Labels list of a flow result.
FlowIndex(flow, l) == CHOOSE i \in DOMAIN flow.Labels : flow.Labels[i] = l

FlowCell(flow, from, to) == flow.FlowMatrix[FlowIndex(flow, from)][FlowIndex(flow, to)]

\* The blocks-type dependencies (blocked position, dependency position,
\* blocker position) whose blocker exists and that pass the closed filter.
CountedEdges(includeClosed) ==
  UNION {
    UNION {
      {<<i, d, b>> : b \in {b \in DOMAIN issues :
                              /\ issues[b].ID = issues[i].Dependencies[d].DependsOnID
                              /\ includeClosed \/ issues[b].Status /= "closed"}}
      : d \in {d \in DOMAIN issues[i].Dependencies :
                 /\ ~issues[i].Dependencies[d].Nil
                 /\ issues[i].Dependencies[d].Type = "blocks"}}
    : i \in {i \in DOMAIN issues : includeClosed \/ issues[i].Status /= "closed"}}

\* The tuples counted for the pair (from, to).
FlowTuples(from, to, includeClosed) ==
  UNION {
    {<<e, p, q>> : p \in Occurrences(issues[e[3]].Labels, from),
                   q \in Occurrences(issues[e[1]].Labels, to)}
    : e \in CountedEdges(includeClosed)}

\* C4: in the result of ComputeCrossLabelFlow, for every pair of distinct
\* non-empty labels (from, to), the FlowMatrix cell equals the number of
\* tuples (blocked issue, one of its blocks dependencies whose blocker exists,
\* an occurrence of from in the blocker's labels, an occurrence of to in the
\* blocked issue's labels) that pass the closed-issue filter; the collection
\* of TestComputeCrossLabelFlow with the default config gives a total of 4
\* and FlowMatrix[api][ui] = 2.
C4_FlowMatrixCounts ==
  call.op = "ComputeCrossLabelFlow" =>
    /\ \A from \in InputLabels : \A to \in InputLabels \ {from} :
         FlowCell(ret, from, to)
           = Cardinality(FlowTuples(from, to, cfg.IncludeClosedInFlow))
    /\ (issues = TestFlowIssues /\ cfg = DefaultLabelHealthConfig) =>
         /\ ret.TotalCrossLabelDeps = 4
         /\ FlowCell(ret, "api", "ui") = 2

\* A blocker with two labels in front of a blocked issue: a cell fed by the
\* second label of the blocker.
C4_Witness ==
  /\ call.op = "ComputeCrossLabelFlow"
  /\ \E e \in CountedEdges(cfg.IncludeClosedInFlow) :
       /\ Len(issues[e[3]].Labels) = 2
       /\ issues[e[3]].Labels[2] \in InputLabels
       /\ \E to \in InputLabels \ {issues[e[3]].Labels[2]} :
            /\ Occurrences(issues[e[1]].Labels, to) /= {}
            /\ FlowCell(ret, issues[e[3]].Labels[2], to) >= 1

\* The collection with the dependencies that touch a closed issue removed.
WithoutClosedEdges ==
  LET closedIDs == {issues[i].ID : i \in {j \in DOMAIN issues :
                                            issues[j].Status = "closed"}}
  IN [i \in DOMAIN issues |->
        [issues[i] EXCEPT !.Dependencies =
           IF issues[i].Status = "closed" THEN <<>>
           ELSE SelectSeq(@, LAMBDA dep : dep.Nil \/ dep.DependsOnID \notin closedIDs)]]

\* The collection with every issue open.
AllOpen == [i \in DOMAIN issues |-> [issues[i] EXCEPT !.Status = "open"]]

FlowCounts(flow) ==
  <<flow.FlowMatrix, flow.Dependencies, flow.TotalCrossLabelDeps, flow.BottleneckLabels>>

StatusOfID(id) == issues[CHOOSE i \in DOMAIN issues : issues[i].ID = id].Status

\* C5: with IncludeClosedInFlow false, a blocks dependency whose blocked or
\* blocker issue is closed contributes to no FlowMatrix cell, to no
\* Dependencies entry and not to TotalCrossLabelDeps (the result is that of
\* the collection without these dependencies, and no blocking pair names a
\* closed issue); with the flag true the dependency counts like one between
\* open issues (the result is that of the collection with every issue open).
C5_ClosedFilter ==
  call.op = "ComputeCrossLabelFlow" =>
    /\ ~cfg.IncludeClosedInFlow =>
         /\ FlowCounts(ret) = FlowCounts(ComputeCrossLabelFlow(WithoutClosedEdges, cfg))
         /\ \A k \in DOMAIN ret.Dependencies :
              /\ \A m \in DOMAIN ret.Dependencies[k].BlockingPairs :
                   /\ StatusOfID(ret.Dependencies[k].BlockingPairs[m].BlockerID) /= "closed"
                   /\ StatusOfID(ret.Dependencies[k].BlockingPairs[m].BlockedID) /= "closed"
              /\ \A m \in DOMAIN ret.Dependencies[k].IssueIDs :
                   StatusOfID(ret.Dependencies[k].IssueIDs[m]) /= "closed"
    /\ cfg.IncludeClosedInFlow =>
         FlowCounts(ret)
           = FlowCounts(ComputeCrossLabelFlow(AllOpen,
                          [cfg EXCEPT !.IncludeClosedInFlow = FALSE]))

\* The flag is false and a dependency on a closed blocker is left out that
\* the flag would let in.
C5_Witness ==
  /\ call.op = "ComputeCrossLabelFlow"
  /\ ~cfg.IncludeClosedInFlow
  /\ \E e \in CountedEdges(TRUE) :
       /\ issues[e[1]].Status /= "closed"
       /\ issues[e[3]].Status = "closed"
       /\ \E from \in InputLabels : \E to \in InputLabels \ {from} :
            /\ FlowTuples(from, to, TRUE) /= {}
            /\ FlowCell(ret, from, to) = 0

\* A list of strings in strictly ascending order.
StrictlyAscending(list) ==
  \A i \in DOMAIN list : \A j \in DOMAIN list :
    i < j => StringRank(list[i]) < StringRank(list[j])

\* The sum of the row of a label in the matrix of a flow result.
RowSum(flow, l) ==
  LET row == flow.FlowMatrix[FlowIndex(flow, l)]
  IN Cardinality(UNION {{<<j, c>> : c \in 1..row[j]} : j \in DOMAIN row})

\* C6: BottleneckLabels is exactly the set of labels whose FlowMatrix row sum
\* equals the largest row sum, when that is greater than 0, and is empty when
\* there is no cross-label dependency; every tied label is listed once, in
\* ascending alphabetical order.
C6_Bottlenecks ==
  call.op = "ComputeCrossLabelFlow" =>
    LET labels == SeqToSet(ret.Labels)
        top == {l \in labels : \A m \in labels : RowSum(ret, m) <= RowSum(ret, l)}
    IN /\ SeqToSet(ret.BottleneckLabels) = {l \in top : RowSum(ret, l) > 0}
       /\ StrictlyAscending(ret.BottleneckLabels)
       /\ ret.TotalCrossLabelDeps = 0 => ret.BottleneckLabels = <<>>

\* Two labels tie for the largest row sum while a third label has a smaller,
\* non-zero one.
C6_Witness ==
  /\ call.op = "ComputeCrossLabelFlow"
  /\ Len(ret.BottleneckLabels) = 2
  /\ \E l \in SeqToSet(ret.Labels) \ SeqToSet(ret.BottleneckLabels) :
       RowSum(ret, l) > 0

\* The order of the dependency list: FromLabel ascending, then ToLabel
\* ascending, then IssueCount descending.
DependencyOrdered(a, b) ==
  \/ StringRank(a.FromLabel) < StringRank(b.FromLabel)
  \/ /\ a.FromLabel = b.FromLabel
     /\ \/ StringRank(a.ToLabel) < StringRank(b.ToLabel)
        \/ a.ToLabel = b.ToLabel /\ a.IssueCount >= b.IssueCount

Reverse(s) == [i \in DOMAIN s |-> s[Len(s) + 1 - i]]

DependencyKeys(flow) ==
  [k \in DOMAIN flow.Dependencies |->
     <<flow.Dependencies[k].FromLabel, flow.Dependencies[k].ToLabel,
       flow.Dependencies[k].IssueCount>>]

\* C7: Dependencies holds exactly one entry for each (FromLabel, ToLabel)
\* pair with a non-zero FlowMatrix cell and none for any other pair, ordered
\* by FromLabel ascending, then ToLabel ascending, then IssueCount
\* descending, whatever the order of the input issues (the reversed
\* collection gives the same pairs and counts in the same order).
C7_Dependencies ==
  call.op = "ComputeCrossLabelFlow" =>
    LET deps == ret.Dependencies
        labels == SeqToSet(ret.Labels)
    IN /\ \A from \in labels : \A to \in labels :
            Cardinality({k \in DOMAIN deps :
                           deps[k].FromLabel = from /\ deps[k].ToLabel = to})
              = IF FlowCell(ret, from, to) /= 0 THEN 1 ELSE 0
       /\ \A k \in DOMAIN deps : deps[k].FromLabel \in labels /\ deps[k].ToLabel \in labels
       /\ \A k \in DOMAIN deps : \A m \in DOMAIN deps :
            k < m => DependencyOrdered(deps[k], deps[m])
       /\ DependencyKeys(ret) = DependencyKeys(ComputeCrossLabelFlow(Reverse(issues), cfg))

\* Three entries, two of them with the same FromLabel.
C7_Witness ==
  /\ call.op = "ComputeCrossLabelFlow"
  /\ Len(ret.Dependencies) >= 3
  /\ \E k \in DOMAIN ret.Dependencies : \E m \in DOMAIN ret.Dependencies :
       k /= m /\ ret.Dependencies[k].FromLabel = ret.Dependencies[m].FromLabel

\* The positions (issue, label position) at which a label occurs.
LabelOccurrences(l) ==
  UNION {{<<i, k>> : k \in Occurrences(issues[i].Labels, l)} : i \in DOMAIN issues}

\* C8: ExtractLabels returns LabelCount equal to the number of distinct
\* non-empty label strings and, for each label L, Stats[L].TotalCount equal
\* to the number of occurrences of L over all label lists; a label listed
\* twice on one issue gives LabelCount 1, TotalCount 2 and the issue ID
\* twice in Stats[L].IssueIDs.
C8_LabelCounts ==
  call.op = "ExtractLabels" =>
    /\ ret.LabelCount = Cardinality(InputLabels)
    /\ DOMAIN ret.Stats = InputLabels
    /\ \A l \in InputLabels :
         /\ ret.Stats[l].TotalCount = Cardinality(LabelOccurrences(l))
         /\ \A i \in DOMAIN issues :
              Cardinality(Occurrences(ret.Stats[l].IssueIDs, issues[i].ID))
                = Cardinality(Occurrences(issues[i].Labels, l))
    /\ (Len(issues) = 1 /\ issues[1].Labels = <<"api", "api">>) =>
         /\ ret.LabelCount = 1
         /\ ret.Stats["api"].TotalCount = 2
         /\ ret.Stats["api"].IssueIDs = <<issues[1].ID, issues[1].ID>>

C8_Witness ==
  /\ call.op = "ExtractLabels"
  /\ Len(issues) = 1
  /\ issues[1].Labels = <<"api", "api">>
  /\ ret.LabelCount = 1
  /\ ret.Stats["api"].TotalCount = 2

\* C9: the empty string never appears as a label in an output: not in the
\* Labels, Stats keys or TopLabels of ExtractLabels, not in the Labels or
\* Dependencies of ComputeCrossLabelFlow, and not as an outer or inner key of
\* the map of GetLabelCooccurrence.
C9_NoEmptyLabel ==
  /\ call.op = "ExtractLabels" =>
       /\ "" \notin SeqToSet(ret.Labels)
       /\ "" \notin DOMAIN ret.Stats
       /\ "" \notin SeqToSet(ret.TopLabels)
  /\ call.op = "ComputeCrossLabelFlow" =>
       /\ "" \notin SeqToSet(ret.Labels)
       /\ \A k \in DOMAIN ret.Dependencies :
            /\ ret.Dependencies[k].FromLabel /= ""
            /\ ret.Dependencies[k].ToLabel /= ""
            /\ \A m \in DOMAIN ret.Dependencies[k].BlockingPairs :
                 /\ ret.Dependencies[k].BlockingPairs[m].BlockerLabel /= ""
                 /\ ret.Dependencies[k].BlockingPairs[m].BlockedLabel /= ""
  /\ call.op = "GetLabelCooccurrence" =>
       /\ "" \notin DOMAIN ret
       /\ \A l \in DOMAIN ret : "" \notin DOMAIN ret[l]

\* C10: in every ExtractLabels result Labels is strictly ascending (sorted,
\* no duplicates) and TopLabels is a permutation of Labels ordered by
\* TotalCount descending, equal counts in ascending alphabetical order.
C10_LabelOrder ==
  call.op = "ExtractLabels" =>
    /\ StrictlyAscending(ret.Labels)
    /\ Len(ret.TopLabels) = Len(ret.Labels)
    /\ SeqToSet(ret.TopLabels) = SeqToSet(ret.Labels)
    /\ \A i \in DOMAIN ret.TopLabels : \A j \in DOMAIN ret.TopLabels :
         i < j =>
           LET a == ret.Stats[ret.TopLabels[i]].TotalCount
               b == ret.Stats[ret.TopLabels[j]].TotalCount
           IN \/ a > b
              \/ a = b /\ StringRank(ret.TopLabels[i]) < StringRank(ret.TopLabels[j])

\* Three labels, two with equal counts, and the most frequent label is not
\* the alphabetically first.
C10_Witness ==
  /\ call.op = "ExtractLabels"
  /\ Len(ret.Labels) = 3
  /\ ret.TopLabels[1] /= ret.Labels[1]
  /\ \E i \in DOMAIN ret.TopLabels : \E j \in DOMAIN ret.TopLabels :
       i /= j /\ ret.Stats[ret.TopLabels[i]].TotalCount
                   = ret.Stats[ret.TopLabels[j]].TotalCount

\* C11: ExtractLabels returns IssueCount equal to the number of input issues
\* and UnlabeledCount equal to the number of issues whose label list is
\* empty; for the empty collection LabelCount, IssueCount and UnlabeledCount
\* are 0 and Stats is the empty map.
C11_IssueCounts ==
  call.op = "ExtractLabels" =>
    /\ ret.IssueCount = Len(issues)
    /\ ret.UnlabeledCount
         = Cardinality({i \in DOMAIN issues : issues[i].Labels = <<>>})
    /\ issues = <<>> =>
         /\ ret.LabelCount = 0
         /\ ret.IssueCount = 0
         /\ ret.UnlabeledCount = 0
         /\ DOMAIN ret.Stats = {}
         /\ ret.Labels = <<>>

\* An issue without labels beside an issue whose only labels are an empty
\* string and a real label.
C11_Witness ==
  /\ call.op = "ExtractLabels"
  /\ Len(issues) = 2
  /\ ret.UnlabeledCount = 1
  /\ \E i \in DOMAIN issues : "" \in SeqToSet(issues[i].Labels)

\* The empty collection is extracted.
C11_WitnessEmpty ==
  call.op = "ExtractLabels" /\ issues = <<>> /\ ret.IssueCount = 0

\* The result of ComputeLabelHealthForLabel has only the values NewLabelHealth
\* gives to the four metric groups: none of them was computed.
MetricsUntouched(h) ==
  /\ h.Velocity = NewLabelHealth(h.Label).Velocity
  /\ h.Freshness = NewLabelHealth(h.Label).Freshness
  /\ h.Flow = NewLabelHealth(h.Label).Flow
  /\ h.Criticality = NewLabelHealth(h.Label).Criticality
  /\ h.Velocity.VelocityScore = 100
  /\ h.Freshness.StaleThresholdDays = 14
  /\ h.Criticality.CriticalityScore = 50

\* C12: ComputeLabelHealthForLabel for a label that no issue of the
\* collection carries returns IssueCount 0, Health 0 and HealthLevel critical
\* whatever the config, the instant and the snapshot, and leaves the velocity,
\* freshness, flow and criticality groups as constructed (not computed).
C12_ZeroMembers ==
  (/\ call.op = "ComputeLabelHealthForLabel"
   /\ \A i \in DOMAIN issues : call.label \notin SeqToSet(issues[i].Labels)) =>
    /\ ret.IssueCount = 0
    /\ ret.Issues = <<>>
    /\ ret.Health = 0
    /\ ret.HealthLevel = "critical"
    /\ ret.OpenCount = 0 /\ ret.ClosedCount = 0 /\ ret.Blocked = 0
    /\ MetricsUntouched(ret)

\* A label without members in a collection that has closed and updated
\* issues, under a config with another stale threshold and heavy weights, a
\* later instant and a snapshot with centrality data.
C12_Witness ==
  /\ call.op = "ComputeLabelHealthForLabel"
  /\ call.label = "core"
  /\ Len(issues) = 2
  /\ \A i \in DOMAIN issues : "core" \notin SeqToSet(issues[i].Labels)
  /\ \E i \in DOMAIN issues : issues[i].ClosedAt /= NilTime
  /\ cfg.StaleThresholdDays = 1
  /\ now /= Now
  /\ DOMAIN stats.PageRank /= {}
  /\ ret.Health = 0

\* The labels of the health records of a result that satisfy a condition.
LabelsWhere(result, Cond(_)) ==
  {result.Labels[i].Label : i \in {k \in DOMAIN result.Labels : Cond(result.Labels[k])}}

\* The number of health records of a result at a level.
CountAtLevel(result, level) ==
  Cardinality({i \in DOMAIN result.Labels : result.Labels[i].HealthLevel = level})

\* C13: in every ComputeAllLabelHealth result HealthyCount, WarningCount and
\* CriticalCount are the numbers of labels at each level and sum to
\* TotalLabels, which is the length of Labels and of Summaries;
\* AttentionNeeded lists, each once, exactly the labels at level warning or
\* critical, which are those with Health < 70 and those whose summary has
\* NeedsAttention true.
C13_Tallies ==
  call.op = "ComputeAllLabelHealth" =>
    /\ ret.HealthyCount = CountAtLevel(ret, "healthy")
    /\ ret.WarningCount = CountAtLevel(ret, "warning")
    /\ ret.CriticalCount = CountAtLevel(ret, "critical")
    /\ ret.HealthyCount + ret.WarningCount + ret.CriticalCount = ret.TotalLabels
    /\ ret.TotalLabels = Len(ret.Labels)
    /\ ret.TotalLabels = Len(ret.Summaries)
    /\ SeqToSet(ret.AttentionNeeded)
         = LabelsWhere(ret, LAMBDA h : h.HealthLevel \in {"warning", "critical"})
    /\ SeqToSet(ret.AttentionNeeded) = LabelsWhere(ret, LAMBDA h : h.Health < 70)
    /\ SeqToSet(ret.AttentionNeeded)
         = {ret.Summaries[i].Label :
              i \in {k \in DOMAIN ret.Summaries : ret.Summaries[k].NeedsAttention}}
    /\ Len(ret.AttentionNeeded) = Cardinality(SeqToSet(ret.AttentionNeeded))

\* A result with a healthy label, which is not listed, beside a critical
\* label, which is.
C13_Witness ==
  /\ call.op = "ComputeAllLabelHealth"
  /\ ret.HealthyCount = 1
  /\ ret.CriticalCount = 1
  /\ ret.TotalLabels = 2
  /\ Len(ret.AttentionNeeded) = 1

\* The ID of the first issue, in input order, that carries the label.
FirstCarrier(l) ==
  LET carriers == {i \in DOMAIN issues : l \in SeqToSet(issues[i].Labels)}
  IN issues[CHOOSE i \in carriers : \A j \in carriers : i <= j].ID

ClosedBetween(lo, hi) ==
  Cardinality({i \in DOMAIN issues :
                 /\ issues[i].ClosedAt /= NilTime
                 /\ lo < issues[i].ClosedAt
                 /\ issues[i].ClosedAt < hi})

\* Later than every instant of the model.
Eternity == 1000 * HoursPerDay

\* current: the closures less than 7 days before now (a ClosedAt later than
\* now included).
CurrentWeek == ClosedBetween(now - 7 * HoursPerDay, Eternity)

\* previous: the closures more than 7 and less than 14 days before now.
PreviousWeek == ClosedBetween(now - 14 * HoursPerDay, now - 7 * HoursPerDay)

C15_WitnessImproving ==
  /\ call.op = "ComputeVelocityMetrics"
  /\ CurrentWeek = 5
  /\ PreviousWeek = 2
  /\ ret.TrendDirection = "improving"

\* min(100, 10 * closed30), plus 10 and capped at 100 for an improving trend.
ExpectedVelocityScore(closed30, improving) ==
  LET base == IF 10 * closed30 < 100 THEN 10 * closed30 ELSE 100
      raised == IF improving THEN base + 10 ELSE base
  IN IF raised > 100 THEN 100 ELSE raised

C16_WitnessBonus ==
  /\ call.op = "ComputeVelocityMetrics"
  /\ ret.ClosedLast30Days = 9
  /\ ret.TrendDirection = "improving"
  /\ ret.VelocityScore = 100

\* The empty input.
C16_WitnessEmpty ==
  call.op = "ComputeVelocityMetrics" /\ issues = <<>> /\ ret.VelocityScore = 0

\* The float64 value of the freshness score of a list is decided by the
\* model: its exact value is not an integer in 1..99, or the days are exact.
FreshnessDecided(iss, t, staleDaysArg) ==
  LET staleDays == IF staleDaysArg <= 0 THEN DefaultStaleThresholdDays
                   ELSE staleDaysArg
      updated == {i \in DOMAIN iss : ~IsZero(iss[i].UpdatedAt)}
      count == Cardinality(updated)
      totalHours == SumSeq([i \in DOMAIN iss |->
                              IF i \in updated THEN t - iss[i].UpdatedAt ELSE 0])
      den == HoursPerDay * count * staleDays * 2
      num == 100 * den - 100 * totalHours
  IN \/ count = 0
     \/ num <= 0
     \/ num >= 100 * den
     \/ TruncDiv(num, den) * den /= num
     \/ ExactDays(iss, t)

\* Every freshness score computed in a run of the label health is decided.
HealthFreshnessDecided ==
  \A l \in LabelUniverse :
    FreshnessDecided(LabeledIssues(issues, l), now, cfg.StaleThresholdDays)

\* Every freshness score computed by a call of the freshness computer is
\* decided.
CallFreshnessDecided ==
  \A staleDays \in StaleDayArguments : FreshnessDecided(issues, now, staleDays)

\* The positions of the issues with a non-zero UpdatedAt.
UpdatedIssues == {i \in DOMAIN issues : issues[i].UpdatedAt /= ZeroTime}

\* The hours since the updates of the updated issues, summed.
HoursSinceUpdate ==
  SumSeq([i \in DOMAIN issues |->
            IF i \in UpdatedIssues THEN now - issues[i].UpdatedAt ELSE 0])

\* clamp(100 - avg / (2 * threshold) * 100, 0, 100) as an integer: the
\* integer part of the clamped value, avg being hours / (24 * count) days
\* (0 for count = 0).
ExpectedFreshnessScore(hours, count, threshold) ==
  IF count = 0 THEN 100
  ELSE LET den == HoursPerDay * count * threshold * 2
           num == 100 * den - 100 * hours
       IN IF num <= 0 THEN 0
          ELSE IF num >= 100 * den THEN 100
          ELSE num \div den

\* C17: ComputeFreshnessMetrics uses threshold = staleDays when
\* staleDays > 0 and 14 otherwise and reports it as StaleThresholdDays; it
\* counts as stale exactly the issues with a non-zero UpdatedAt whose days
\* since update are >= threshold; FreshnessScore is
\* clamp(100 - avgDaysSinceUpdate / (2 * threshold) * 100, 0, 100): 0
\* whenever the average staleness is at least twice the threshold (one
\* issue updated 60 days ago, threshold 14) and at least 90 for one issue
\* updated an hour ago with threshold 14.
C17_Freshness ==
  call.op = "ComputeFreshnessMetrics" =>
    LET threshold == IF call.staleDays > 0 THEN call.staleDays ELSE 14
        count == Cardinality(UpdatedIssues)
    IN /\ ret.StaleThresholdDays = threshold
       /\ ret.StaleCount
            = Cardinality({i \in UpdatedIssues :
                 now - issues[i].UpdatedAt >= threshold * HoursPerDay})
       /\ ret.FreshnessScore
            = ExpectedFreshnessScore(HoursSinceUpdate, count, threshold)
       /\ (count > 0 /\ HoursSinceUpdate >= 2 * threshold * HoursPerDay * count)
            => ret.FreshnessScore = 0
       /\ (Len(issues) = 1 /\ threshold = 14
              /\ issues[1].UpdatedAt = now - 60 * HoursPerDay)
            => ret.FreshnessScore = 0
       /\ (Len(issues) = 1 /\ threshold = 14 /\ issues[1].UpdatedAt = now - 1)
            => ret.FreshnessScore >= 90

\* C17 without the value of the score between its ends: the threshold, the
\* stale count, the score 0 from twice the threshold on, the score within
\* one below the clamped value.
C17_FreshnessWithinOne ==
  call.op = "ComputeFreshnessMetrics" =>
    LET threshold == IF call.staleDays > 0 THEN call.staleDays ELSE 14
        count == Cardinality(UpdatedIssues)
        expected == ExpectedFreshnessScore(HoursSinceUpdate, count, threshold)
    IN /\ ret.StaleThresholdDays = threshold
       /\ ret.StaleCount
            = Cardinality({i \in UpdatedIssues :
                 now - issues[i].UpdatedAt >= threshold * HoursPerDay})
       /\ ret.FreshnessScore \in {expected, expected - 1}
       /\ ret.FreshnessScore \in 0..100
       /\ (count > 0 /\ HoursSinceUpdate >= 2 * threshold * HoursPerDay * count)
            => ret.FreshnessScore = 0

\* The largest of a set of instants, the zero instant for the empty set.
LatestOf(S) == IF S = {} THEN ZeroTime ELSE CHOOSE x \in S : \A y \in S : y <= x

\* The smallest of a set of instants, the zero instant for the empty set.
EarliestOf(S) == IF S = {} THEN ZeroTime ELSE CHOOSE x \in S : \A y \in S : x <= y

\* The CreatedAt values of the issues of a list that are not closed.
OpenCreations(iss) ==
  {iss[i].CreatedAt : i \in {k \in DOMAIN iss : iss[k].Status /= StatusClosed}}

\* C18: ComputeFreshnessMetrics returns MostRecentUpdate equal to the largest
\* UpdatedAt of all issues and OldestOpenIssue equal to the smallest
\* CreatedAt of the issues that are not closed (over those that have a
\* CreatedAt, or the zero instant when one of them has none), for every list
\* and whatever the order of the issues; closed issues do not influence
\* OldestOpenIssue.
C18_FreshnessExtremes ==
  call.op = "ComputeFreshnessMetrics" =>
    LET reversed == ComputeFreshnessMetrics(Reverse(issues), now, call.staleDays)
        open == SelectSeq(issues, LAMBDA x : x.Status /= StatusClosed)
        onlyOpen == ComputeFreshnessMetrics(open, now, call.staleDays)
    IN /\ ret.MostRecentUpdate
            = LatestOf({issues[i].UpdatedAt : i \in DOMAIN issues})
       /\ \/ ret.OldestOpenIssue = EarliestOf(OpenCreations(issues))
          \/ ret.OldestOpenIssue = EarliestOf(OpenCreations(issues) \ {ZeroTime})
       /\ reversed.MostRecentUpdate = ret.MostRecentUpdate
       /\ reversed.OldestOpenIssue = ret.OldestOpenIssue
       /\ onlyOpen.OldestOpenIssue = ret.OldestOpenIssue

\* C18 for the lists in which every issue that is not closed has a
\* CreatedAt.
C18_ExtremesWhenCreated ==
  (/\ call.op = "ComputeFreshnessMetrics"
   /\ ZeroTime \notin OpenCreations(issues)) => C18_FreshnessExtremes

\* The label list of the issue with an ID (IDs are unique), empty when no
\* issue has it.
LabelsOfID(id) ==
  IF \E i \in DOMAIN issues : issues[i].ID = id
  THEN issues[CHOOSE i \in DOMAIN issues : issues[i].ID = id].Labels
  ELSE <<>>

\* The blocks-type dependencies (issue position, dependency position) of the
\* issues that carry a label, each issue once.
BlocksEdgesOf(l) ==
  {e \in UNION {{<<i, d>> : d \in DOMAIN issues[i].Dependencies} : i \in DOMAIN issues} :
     /\ l \in SeqToSet(issues[e[1]].Labels)
     /\ ~issues[e[1]].Dependencies[e[2]].Nil
     /\ issues[e[1]].Dependencies[e[2]].Type = DepBlocks}

\* The label occurrences (edge, position in the blocker's label list) of the
\* blockers of a label that differ from the label.
IncomingOccurrences(l) ==
  UNION {{<<e, k>> : k \in {j \in DOMAIN LabelsOfID(issues[e[1]].Dependencies[e[2]].DependsOnID) :
                              LabelsOfID(issues[e[1]].Dependencies[e[2]].DependsOnID)[j] /= l}} :
         e \in BlocksEdgesOf(l)}

\* C19: in ComputeLabelHealthForLabel for label L, Flow.IncomingDeps is the
\* sum, over the issues carrying L (each once) and over their blocks-type
\* dependencies, of the number of label occurrences of the blocker that
\* differ from L; IncomingLabels is the set of those labels, deduplicated
\* and in ascending order; FlowScore is clamp(100 - 5 * IncomingDeps, 0, 100)
\* whatever OutgoingDeps is.
C19_IncomingFlow ==
  call.op = "ComputeLabelHealthForLabel" =>
    LET occ == IncomingOccurrences(call.label)
        expected == 100 - 5 * ret.Flow.IncomingDeps
    IN /\ ret.Flow.IncomingDeps = Cardinality(occ)
       /\ SeqToSet(ret.Flow.IncomingLabels)
            = {LabelsOfID(issues[o[1][1]].Dependencies[o[1][2]].DependsOnID)[o[2]] :
                 o \in occ}
       /\ StrictlyAscending(ret.Flow.IncomingLabels)
       /\ ret.Flow.FlowScore
            = IF expected < 0 THEN 0 ELSE IF expected > 100 THEN 100 ELSE expected

\* A blocker that lists one other label twice: two incoming dependencies,
\* one incoming label, while the blocked issue has another label of its own.
C19_Witness ==
  /\ call.op = "ComputeLabelHealthForLabel"
  /\ ret.Flow.IncomingDeps = 2
  /\ Len(ret.Flow.IncomingLabels) = 1
  /\ ret.Flow.OutgoingDeps > 0
  /\ ret.Flow.FlowScore = 90

\* A dependency of the blocks type whose DependsOnID matches no issue.
Dangling(dep) ==
  /\ ~dep.Nil
  /\ dep.Type = DepBlocks
  /\ \A i \in DOMAIN issues : issues[i].ID /= dep.DependsOnID

\* The collection without its dangling dependencies.
WithoutDangling ==
  [i \in DOMAIN issues |->
     [issues[i] EXCEPT !.Dependencies = SelectSeq(@, LAMBDA dep : ~Dangling(dep))]]

\* C20: a blocks-type dependency whose DependsOnID matches no issue of the
\* collection is skipped: the result of ComputeCrossLabelFlow (matrix,
\* Dependencies, bottlenecks, total) and the flow metrics of
\* ComputeLabelHealthForLabel (IncomingDeps, IncomingLabels, OutgoingDeps,
\* OutgoingLabels, FlowScore) are those of the same collection without that
\* dependency.
C20_DanglingSkipped ==
  /\ call.op = "ComputeCrossLabelFlow" =>
       ret = ComputeCrossLabelFlow(WithoutDangling, cfg)
  /\ call.op = "ComputeLabelHealthForLabel" =>
       ret.Flow
         = ComputeLabelHealthForLabel(call.label, WithoutDangling, cfg, now, stats).Flow

\* C20 without the outgoing metrics of the per-label flow.
C20_DanglingSkippedIncoming ==
  /\ call.op = "ComputeCrossLabelFlow" =>
       ret = ComputeCrossLabelFlow(WithoutDangling, cfg)
  /\ call.op = "ComputeLabelHealthForLabel" =>
       LET other == ComputeLabelHealthForLabel(call.label, WithoutDangling,
                                               cfg, now, stats).Flow
       IN /\ ret.Flow.IncomingDeps = other.IncomingDeps
          /\ ret.Flow.IncomingLabels = other.IncomingLabels
          /\ ret.Flow.FlowScore = other.FlowScore

\* A call on a collection that has a dangling dependency beside a resolved
\* one.
C20_DanglingReached ==
  /\ call.op \in {"ComputeCrossLabelFlow", "ComputeLabelHealthForLabel"}
  /\ \E i \in DOMAIN issues : \E d \in DOMAIN issues[i].Dependencies :
       Dangling(issues[i].Dependencies[d])
  /\ \/ call.op = "ComputeCrossLabelFlow" /\ ret.TotalCrossLabelDeps > 0
     \/ call.op = "ComputeLabelHealthForLabel" /\ ret.Flow.IncomingDeps > 0



\* C21: when the per-label health computations run as concurrent workers in
\* any interleaving and completion order, each writing only its own slot,
\* the result assembled after the fan-in (Labels, Summaries, the three
\* counts, AttentionNeeded) is the result of the sequential alphabetical loop.
C21_FanInEqualsSequential ==
  call.op = "FanIn" => ret = ComputeAllLabelHealth(issues, cfg, now, stats)

\* Until the fan-in, a slot is filled exactly when its worker has completed,
\* and then holds the health of the label of its index.
C21_SlotsByIndex ==
  call.op = "FanOut" =>
    \A k \in 1..Len(call.labels) :
      IF k \in SeqToSet(call.completed)
      THEN ret[k] = <<ComputeLabelHealthForLabel(call.labels[k], issues, cfg, now, stats)>>
      ELSE ret[k] = <<>>

\* Three workers completed in the reverse of the label order, and two labels
\* need attention.
C21_Witness ==
  /\ call.op = "FanIn"
  /\ Len(call.completed) >= 3
  /\ call.completed[1] > call.completed[2]
  /\ call.completed[2] > call.completed[3]
  /\ Len(ret.AttentionNeeded) >= 2
  /\ ret.Summaries[1].Label /= ret.Labels[1].Label


\* The configuration of the run with another MinIssuesForHealth.
WithMinIssues(m) == [cfg EXCEPT !.MinIssuesForHealth = m]

C22_WitnessLabel ==
  /\ call.op = "ComputeLabelHealthForLabel"
  /\ cfg.MinIssuesForHealth > 1
  /\ ret.IssueCount = 1
  /\ ret.Health > 0

\* The flow was computed under a minimum above the size of the collection
\* and has a cross-label dependency.
C22_WitnessFlow ==
  /\ call.op = "ComputeCrossLabelFlow"
  /\ cfg.MinIssuesForHealth > Len(issues)
  /\ ret.TotalCrossLabelDeps > 0


\* cooc[a][b] as Go reads it: 0 when either key is missing.
CoocGet(cooc, a, b) ==
  IF a \in DOMAIN cooc /\ b \in DOMAIN cooc[a] THEN cooc[a][b] ELSE 0

RECURSIVE OccurrencePairsFrom(_, _, _)
OccurrencePairsFrom(a, b, n) ==
  IF n > Len(issues) THEN 0
  ELSE Cardinality(Occurrences(issues[n].Labels, a))
         * Cardinality(Occurrences(issues[n].Labels, b))
         + OccurrencePairsFrom(a, b, n + 1)

\* The number of pairs (occurrence of a, occurrence of b) on one issue,
\* summed over the issues.
OccurrencePairs(a, b) == OccurrencePairsFrom(a, b, 1)

\* The labels that share some issue with a different label.
SharingLabels ==
  {a \in LabelUniverse :
     \E n \in DOMAIN issues, b \in LabelUniverse :
       /\ b /= a
       /\ Occurrences(issues[n].Labels, a) /= {}
       /\ Occurrences(issues[n].Labels, b) /= {}}

\* C23: GetLabelCooccurrence returns a symmetric map in which cooc[a][b],
\* for distinct a and b, counts the pairs of occurrences of a and b on the
\* same issue; a label repeated on one issue is not paired with itself, so
\* cooc[a][a] is never set, and a label that shares no issue with another
\* label has no entries.
C23_Cooccurrence ==
  call.op = "GetLabelCooccurrence" =>
    /\ \A a, b \in LabelUniverse : CoocGet(ret, a, b) = CoocGet(ret, b, a)
    /\ \A a, b \in LabelUniverse :
         a /= b => CoocGet(ret, a, b) = OccurrencePairs(a, b)
    /\ \A a \in DOMAIN ret : a \notin DOMAIN ret[a]
    /\ \A a \in LabelUniverse \ SharingLabels :
         a \notin DOMAIN ret \/ DOMAIN ret[a] = {}

\* The part of C23 on distinct labels: the map is symmetric, its cells for
\* distinct labels count the occurrence pairs, and its keys other than the
\* self-pairs of repeated labels are those of labels sharing an issue.
C23_SymmetricCounts ==
  call.op = "GetLabelCooccurrence" =>
    /\ \A a, b \in LabelUniverse : CoocGet(ret, a, b) = CoocGet(ret, b, a)
    /\ \A a, b \in LabelUniverse :
         a /= b => CoocGet(ret, a, b) = OccurrencePairs(a, b)
    /\ \A a \in DOMAIN ret : \A b \in DOMAIN ret[a] :
         b /= a => a \in SharingLabels /\ b \in SharingLabels

\* What the pair loop does with a label listed k times on an issue: every
\* two of its occurrences are paired, and each pair is counted twice.
C23_SelfPairs ==
  call.op = "GetLabelCooccurrence" =>
    \A a \in LabelUniverse :
      CoocGet(ret, a, a) = OccurrencePairs(a, a) - Cardinality(LabelOccurrences(a))

\* A repeated label beside another label: two occurrence pairs.
C23_PairsReached ==
  /\ call.op = "GetLabelCooccurrence"
  /\ \E a, b \in LabelUniverse : a /= b /\ CoocGet(ret, a, b) >= 2


\* The labels that occur in every label set of the call.
InEverySet ==
  {l \in LabelUniverse : \A n \in DOMAIN call.labelSets : l \in SeqToSet(call.labelSets[n])}

\* C24: GetCommonLabels without a label set returns nothing; with one or more
\* sets it returns exactly the labels that occur in every set, each once even
\* where a set repeats a label, in ascending alphabetical order.
C24_CommonLabels ==
  call.op = "GetCommonLabels" =>
    /\ Len(call.labelSets) = 0 => ret = <<>>
    /\ Len(call.labelSets) >= 1 =>
         /\ SeqToSet(ret) = InEverySet
         /\ Len(ret) = Cardinality(InEverySet)
         /\ StrictlyAscending(ret)

\* Three sets, two labels common to all of them, one of them repeated in a
\* set, and a label of the first set that is not common.
C24_Witness ==
  /\ call.op = "GetCommonLabels"
  /\ Len(call.labelSets) = 3
  /\ Len(ret) = 2
  /\ \E n \in DOMAIN call.labelSets :
       Cardinality(Occurrences(call.labelSets[n], ret[2])) = 2
  /\ \E l \in SeqToSet(call.labelSets[1]) : l \notin SeqToSet(ret)

\* The call without a label set.
C24_WitnessNone ==
  /\ call.op = "GetCommonLabels"
  /\ Len(call.labelSets) = 0
  /\ ret = <<>>


\* The positions of the member issues of the label of the call.
Members == {i \in DOMAIN issues : HasLabel(issues[i], call.label)}

MembersWithStatus(S) == Cardinality({i \in Members : issues[i].Status \in S})

\* C25: in the LabelHealth of ComputeLabelHealthForLabel every member issue
\* is in exactly one status bucket, OpenCount + ClosedCount + Blocked =
\* IssueCount; closed counts in ClosedCount, blocked in Blocked, and open,
\* in_progress and every other status value in OpenCount.
C25_StatusBuckets ==
  call.op = "ComputeLabelHealthForLabel" =>
    /\ ret.OpenCount + ret.ClosedCount + ret.Blocked = ret.IssueCount
    /\ ret.IssueCount = Cardinality(Members)
    /\ ret.ClosedCount = MembersWithStatus({StatusClosed})
    /\ ret.Blocked = MembersWithStatus({StatusBlocked})
    /\ ret.OpenCount = MembersWithStatus(StatusValues \ {StatusClosed, StatusBlocked})
    /\ \A i \in Members : issues[i].Status \in StatusValues

\* A label with an in_progress member and a member of a status the package
\* does not define, both counted as open.
C25_Witness ==
  /\ call.op = "ComputeLabelHealthForLabel"
  /\ ret.OpenCount = 2
  /\ \E i \in Members : issues[i].Status = StatusInProgress
  /\ \E i \in Members : issues[i].Status \notin
                          {StatusOpen, StatusInProgress, StatusBlocked, StatusClosed}

\* A label with a closed and a blocked member.
C25_WitnessClosedBlocked ==
  /\ call.op = "ComputeLabelHealthForLabel"
  /\ ret.ClosedCount = 1
  /\ ret.Blocked = 1
  /\ ret.OpenCount = 0


\* The centrality sums of the member issues of the label of the call.
MemberPageRank == SumSeq([i \in DOMAIN issues |->
                            IF i \in Members THEN MapGet(stats.PageRank, issues[i].ID) ELSE 0])

MemberMaxBetweenness ==
  LET S == {MapGet(stats.Betweenness, issues[i].ID) : i \in Members} \cup {0}
  IN CHOOSE x \in S : \A y \in S : y <= x

\* 50 * (average PageRank / maximum PageRank)
\*   + 50 * (maximum betweenness in the label / maximum betweenness)
\* as a fraction, a term being 0 when its global maximum is 0.
CriticalityFormula ==
  LET maxPR == findMax(stats.PageRank)
      maxBW == findMax(stats.Betweenness)
      n == Cardinality(Members)
      prNum == IF maxPR > 0 THEN 50 * MemberPageRank ELSE 0
      prDen == IF maxPR > 0 THEN n * maxPR ELSE 1
      bwNum == IF maxBW > 0 THEN 50 * MemberMaxBetweenness ELSE 0
      bwDen == IF maxBW > 0 THEN maxBW ELSE 1
  IN [num |-> prNum * bwDen + bwNum * prDen, den |-> prDen * bwDen]

\* The counts of C26: the label's issues with a positive critical-path score
\* and with positive betweenness, both at most IssueCount.
CriticalityCounts ==
  /\ ret.Criticality.CriticalPathCount
       = Cardinality({i \in Members : MapGet(stats.CriticalPathScore, issues[i].ID) > 0})
  /\ ret.Criticality.BottleneckCount
       = Cardinality({i \in Members : MapGet(stats.Betweenness, issues[i].ID) > 0})
  /\ ret.Criticality.CriticalPathCount <= ret.IssueCount
  /\ ret.Criticality.BottleneckCount <= ret.IssueCount

\* C26: in ComputeLabelHealthForLabel, CriticalityScore is
\* clamp(50 * (average PageRank of the label / maximum PageRank)
\* + 50 * (maximum betweenness in the label / maximum betweenness), 0, 100),
\* a term being 0 when its maximum is 0 (read as the integer part of the
\* formula, the score being an int); CriticalPathCount and BottleneckCount
\* count the label's issues with a positive critical-path score and with
\* positive betweenness and are at most IssueCount.
C26_Criticality ==
  (call.op = "ComputeLabelHealthForLabel" /\ ret.IssueCount > 0) =>
    /\ ret.Criticality.CriticalityScore
         = clampScore(TruncDiv(CriticalityFormula.num, CriticalityFormula.den))
    /\ CriticalityCounts

\* What holds of the score: it is in 0..100, not above the formula and less
\* than 2 below it (each of the two terms loses less than 1), it is 0 when
\* both maxima are 0, and the counts are as C26 says.
C26_WithinTwo ==
  (call.op = "ComputeLabelHealthForLabel" /\ ret.IssueCount > 0) =>
    LET score == ret.Criticality.CriticalityScore
        f == CriticalityFormula
    IN /\ score \in 0..100
       /\ score * f.den <= f.num
       /\ (score + 2) * f.den > f.num
       /\ (findMax(stats.PageRank) = 0 /\ findMax(stats.Betweenness) = 0) => score = 0
       /\ CriticalityCounts

\* Every PageRank term computed is decided by the float64 model: the average
\* is an exact float64 value, or the exact term is not an integer.
C26_TermsDecided ==
  (call.op = "ComputeLabelHealthForLabel" /\ ret.IssueCount > 0
     /\ findMax(stats.PageRank) > 0) =>
    \/ AverageExact(MemberPageRank, ret.IssueCount)
    \/ (50 * MemberPageRank) % (ret.IssueCount * findMax(stats.PageRank)) /= 0

\* Both terms are fractional and the score is below the integer part of the
\* formula.
C26_TwoFractionsReached ==
  /\ call.op = "ComputeLabelHealthForLabel"
  /\ ret.IssueCount = 1
  /\ ret.Criticality.CriticalityScore = 32
  /\ TruncDiv(CriticalityFormula.num, CriticalityFormula.den) = 33

\* The formula is the integer 29 and the score is 28.
C26_RoundingReached ==
  /\ call.op = "ComputeLabelHealthForLabel"
  /\ CriticalityFormula.num = 29 * CriticalityFormula.den
  /\ ret.Criticality.CriticalityScore = 28


\* The sum of all cells of the matrix of a flow result.
MatrixSum(flow) ==
  SumSeq([i \in DOMAIN flow.FlowMatrix |-> SumSeq(flow.FlowMatrix[i])])

\* C27: in every ComputeCrossLabelFlow result FlowMatrix is N x N with
\* N = len(Labels), its diagonal is zero, TotalCrossLabelDeps is the sum of
\* all cells and the sum of IssueCount over Dependencies, and every
\* dependency entry has IssueCount = len(IssueIDs) = len(BlockingPairs) =
\* FlowMatrix[FromLabel][ToLabel], each of its blocking pairs carrying
\* BlockerLabel = FromLabel and BlockedLabel = ToLabel.
C27_FlowConsistent ==
  call.op = "ComputeCrossLabelFlow" =>
    LET n == Len(ret.Labels) IN
    /\ Len(ret.FlowMatrix) = n
    /\ \A i \in 1..n : Len(ret.FlowMatrix[i]) = n /\ ret.FlowMatrix[i][i] = 0
    /\ ret.TotalCrossLabelDeps = MatrixSum(ret)
    /\ ret.TotalCrossLabelDeps
         = SumSeq([k \in DOMAIN ret.Dependencies |-> ret.Dependencies[k].IssueCount])
    /\ \A k \in DOMAIN ret.Dependencies :
         LET d == ret.Dependencies[k] IN
         /\ d.FromLabel \in SeqToSet(ret.Labels)
         /\ d.ToLabel \in SeqToSet(ret.Labels)
         /\ d.IssueCount = Len(d.IssueIDs)
         /\ d.IssueCount = Len(d.BlockingPairs)
         /\ d.IssueCount = FlowCell(ret, d.FromLabel, d.ToLabel)
         /\ \A m \in DOMAIN d.BlockingPairs :
              /\ d.BlockingPairs[m].BlockerLabel = d.FromLabel
              /\ d.BlockingPairs[m].BlockedLabel = d.ToLabel

\* Three labels, at least two dependency entries, one of them with two
\* blocking pairs, and an issue whose labels include a repeated one.
C27_Witness ==
  /\ call.op = "ComputeCrossLabelFlow"
  /\ Len(ret.Labels) >= 3
  /\ Len(ret.Dependencies) >= 2
  /\ \E k \in DOMAIN ret.Dependencies : ret.Dependencies[k].IssueCount >= 2
  /\ ret.TotalCrossLabelDeps >= 3


\* No issue has an empty label or lists a label twice; issue IDs are unique.
CleanCollection ==
  /\ \A i \in DOMAIN issues :
       /\ "" \notin SeqToSet(issues[i].Labels)
       /\ Cardinality(SeqToSet(issues[i].Labels)) = Len(issues[i].Labels)
  /\ \A i, j \in DOMAIN issues : issues[i].ID = issues[j].ID => i = j

\* The sum of the column of a label in the matrix of a flow result, and the
\* labels whose cell in that column is not zero; nothing for a label the
\* result does not list.
ColumnSum(flow, l) ==
  IF l \notin SeqToSet(flow.Labels) THEN 0
  ELSE SumSeq([i \in DOMAIN flow.FlowMatrix |-> flow.FlowMatrix[i][FlowIndex(flow, l)]])

ColumnLabels(flow, l) ==
  IF l \notin SeqToSet(flow.Labels) THEN {}
  ELSE {flow.Labels[i] : i \in {j \in DOMAIN flow.Labels :
                                  flow.FlowMatrix[j][FlowIndex(flow, l)] /= 0}}

\* C28: for a collection with unique issue IDs in which no issue has an
\* empty label or lists a label twice, and with IncludeClosedInFlow true,
\* Flow.IncomingDeps of ComputeLabelHealthForLabel for a label is the sum of
\* the label's column of ComputeCrossLabelFlow's FlowMatrix, and
\* IncomingLabels is the set of labels whose cell in that column is not zero.
C28_IncomingAgrees ==
  (call.op = "ComputeLabelHealthForLabel" /\ cfg.IncludeClosedInFlow /\ CleanCollection) =>
    LET flow == ComputeCrossLabelFlow(issues, cfg)
    IN /\ ret.Flow.IncomingDeps = ColumnSum(flow, call.label)
       /\ SeqToSet(ret.Flow.IncomingLabels) = ColumnLabels(flow, call.label)
       /\ Len(ret.Flow.IncomingLabels) = Cardinality(ColumnLabels(flow, call.label))

\* A label of a closed issue with an incoming edge from another label, in a
\* collection of two labeled issues.
C28_Witness ==
  /\ call.op = "ComputeLabelHealthForLabel"
  /\ cfg.IncludeClosedInFlow
  /\ CleanCollection
  /\ ret.Flow.IncomingDeps >= 1
  /\ Len(ret.Flow.IncomingLabels) >= 1
  /\ \E i \in Members : issues[i].Status = StatusClosed
  /\ Len(issues) >= 2


\* The labels ExtractLabels lists for the collection.
ListedLabels == SeqToSet(ExtractLabels(issues).Labels)

\* C29: for every label L that ExtractLabels lists, ComputeLabelHealthForLabel
\* on the same collection has IssueCount >= 1 (ComputeAllLabelHealth never
\* takes the zero-member short-circuit), its Issues list holds each member
\* issue ID once, and IssueCount <= Stats[L].TotalCount with equality exactly
\* when no issue lists L more than once.
C29_ListedLabelHasMembers ==
  /\ (call.op = "ComputeLabelHealthForLabel" /\ call.label \in ListedLabels) =>
       LET total == ExtractLabels(issues).Stats[call.label].TotalCount
           repeated == \E i \in DOMAIN issues :
                         Cardinality(Occurrences(issues[i].Labels, call.label)) > 1
       IN /\ ret.IssueCount >= 1
          /\ Len(ret.Issues) = ret.IssueCount
          /\ ret.IssueCount = Cardinality(Members)
          /\ \A i \in Members :
               Cardinality({k \in DOMAIN ret.Issues : ret.Issues[k] = issues[i].ID}) = 1
          /\ ret.IssueCount <= total
          /\ (ret.IssueCount = total) <=> ~repeated
  /\ call.op = "ComputeAllLabelHealth" =>
       /\ Len(ret.Labels) = Cardinality(ListedLabels)
       /\ \A k \in DOMAIN ret.Labels :
            /\ ret.Labels[k].Label \in ListedLabels
            /\ ret.Labels[k].IssueCount >= 1

\* A label that one member lists twice and another once: IssueCount 2 is
\* below the TotalCount 3.
C29_Witness ==
  /\ call.op = "ComputeLabelHealthForLabel"
  /\ call.label \in ListedLabels
  /\ ret.IssueCount = 2
  /\ ExtractLabels(issues).Stats[call.label].TotalCount = 3

\* All labels analysed, one of them listed twice by its only member.
C29_WitnessAll ==
  /\ call.op = "ComputeAllLabelHealth"
  /\ \E k \in DOMAIN ret.Labels :
       /\ ret.Labels[k].IssueCount = 1
       /\ ExtractLabels(issues).Stats[ret.Labels[k].Label].TotalCount = 2


\* The indexes of the visible pages of the tutorial model.
VisibleIndexes == 0..(Len(visiblePages(ret)) - 1)

\* C30: after any sequence of key messages handled by Update and of calls to
\* NextPage, PrevPage, JumpToPage, JumpToSection, SetContext and
\* SetContextMode, whenever a page is visible currentPage is an index of the
\* visible page list, whenever the TOC has focus tocCursor is one as well,
\* and scrollOffset is never negative.
C30_TutorialIndexes ==
  /\ Len(visiblePages(ret)) > 0 => ret.currentPage \in VisibleIndexes
  /\ ret.focus = focusTutorialTOC => ret.tocCursor \in VisibleIndexes
  /\ ret.scrollOffset >= 0

\* The part of C30 on the page and the scroll offset, and the range the TOC
\* cursor stays in: the indexes of the unfiltered page list.
C30_PageAndScroll ==
  /\ Len(visiblePages(ret)) > 0
  /\ ret.currentPage \in VisibleIndexes
  /\ ret.scrollOffset >= 0
  /\ ret.tocCursor \in 0..(Len(ret.pages) - 1)
  /\ ret.focus = focusTutorialTOC => ret.tocVisible

\* The context filter hides pages and the last visible page is current.
C30_FilteredReached ==
  /\ Len(visiblePages(ret)) < Len(ret.pages)
  /\ ret.currentPage = Len(visiblePages(ret)) - 1
  /\ ret.focus = focusTutorialTOC
  /\ ret.tocCursor = ret.currentPage

=============================================================================
